---- MODULE Spec2Model ----
(***************************************************************************)
(* A model of repo-to-claude-skill: the repository fetcher (locator        *)
(* validation, clone, sampling, cleanup), the response parser/validator    *)
(* and the orchestrating workflow of app.py.                               *)
(*                                                                         *)
(* Texts (locators, paths, provider responses) are sequences of one-       *)
(* character strings, so that every string operation of the source (find,  *)
(* rfind, replace, split, strip, startswith, the regular expressions) is   *)
(* computed character by character.                                        *)
(***************************************************************************)
EXTENDS Integers, Sequences, FiniteSets, TLC

VARIABLES
    \* ---- locator validation (validate_github_url called on its own)
    u_url,        \* the locator handed to validate_github_url
    u_pc,         \* "call" before the call, "ret" after it
    u_ret         \* the returned pair [ok, reason]

u_vars == <<u_url, u_pc, u_ret>>

VARIABLES
    \* ---- the workflow of app.py and clone_repository
    mode,         \* "workflow": generate_skill_workflow runs; "direct": a caller
                  \* calls clone_repository itself; "idle": neither
    repo_url,     \* the locator of the run
    pc,           \* where generate_skill_workflow (or the direct caller) stands
    outcome,      \* how the workflow ended ("running" until then)
    cpc,          \* where clone_repository stands ("idle" when not called)
    clone_path,   \* clone_repository's local clone_path, once resolved
    clone_ret,    \* what clone_repository returned: "None", "path", "raised"
    clone_why,    \* the branch clone_repository returned None from
    total_size,   \* the sum of the file sizes of the finished clone
    link,         \* the symbolic link the environment holds in TEMP_DIR, if any
    dirs,         \* the directories that exist on disk
    mutations,    \* the filesystem mutations done so far: [op, path]
    cloneCalls,   \* calls of clone_repository
    gitCalls,     \* calls of git.Repo.clone_from
    cleanupCalls  \* calls of RepoAnalyzer.cleanup

VARIABLES
    \* ---- code sampling (_extract_code_samples called on its own)
    s_repo,       \* repo_path
    s_tree,       \* the files of the clone, in rglob's order
    s_fault,      \* the extension at which rglob raises (0: at none)
    s_pc,         \* "call" before the call, "ret" after it
    s_samples     \* the returned list

s_vars == <<s_repo, s_tree, s_fault, s_pc, s_samples>>

VARIABLES
    \* ---- response parsing (_parse_response called on its own)
    p_text,       \* response_text
    p_pc,         \* "call" before the call, "ret" after it
    p_candidate,  \* json_text, the text handed to json.loads
    p_loaded,     \* what json.loads made of it
    p_ret         \* how the call ended

p_vars == <<p_text, p_pc, p_candidate, p_loaded, p_ret>>

VARIABLES
    \* ---- skill generation (generate_skill called on its own, once per callback)
    g_backend,      \* the backend the generator was created for
    g_prompt_fault, \* whether _prepare_prompt raises
    g_provider,     \* what the provider does when called
    g_pc,           \* per run: "start", "prompt", "api", "parse", "ret"
    g_resp,         \* per run: what _call_ai_api ended with
    g_ret,          \* per run: how generate_skill ended
    g_calls         \* per run: the calls of _prepare_prompt, _call_ai_api, _parse_response

g_vars == <<g_backend, g_prompt_fault, g_provider, g_pc, g_resp, g_ret, g_calls>>

VARIABLES
    \* ---- the generator factory (create_generator called on its own)
    c_auth_method, \* the authentication method asked for
    c_kwargs,      \* the keyword arguments given
    c_sdk_fails,   \* whether the provider's client library refuses the credentials
    c_pc,          \* "start", "construct", "ret"
    c_built,       \* the constructors entered, in order
    c_ret          \* how the call ended

c_vars == <<c_auth_method, c_kwargs, c_sdk_fails, c_pc, c_built, c_ret>>

VARIABLES
    \* ---- the skill builder (build_skill called on a parsed document, once per callback)
    b_fs_fault, \* which filesystem operation of the call fails (0: none)
    b_pc,       \* "call", "ret"
    b_ret       \* per callback: how build_skill ended

b_vars == <<b_fs_fault, b_pc, b_ret>>

VARIABLES
    \* ---- what a run of the workflow leaves behind it
    validation,   \* what validate_skill returned: "none" until then
    packaging,    \* the success flags package_skill returned, one per call
    history,      \* the rows of the skills table, oldest first
    stored,       \* st.session_state.last_generated_skill
    rerun         \* whether st.rerun() was called

h_vars == <<validation, packaging, history, stored, rerun>>

VARIABLES
    \* ---- batch generation (batch_generation_ui and batch_generate_workflow)
    t_entered,    \* the lines of the text area
    t_credential, \* whether the credential of the chosen method is in the sidebar
    t_urls,       \* the list handed to batch_generate_workflow
    t_pc,         \* "ui", "loop", "done", "halted" (the script run was ended by st.rerun)
    t_runs        \* the runs of generate_skill_workflow so far: locator and outcome

t_vars == <<t_entered, t_credential, t_urls, t_pc, t_runs>>

VARIABLES
    \* ---- repository analysis and prompt (analyze_repository, _prepare_prompt)
    a_repo,     \* the clone that is analysed
    a_fault,    \* the step of the analysis in which a read or stat error occurs
    a_metadata, \* what fetch_repo_metadata returned
    a_template, \* the prompt template the generator loaded
    a_pc,       \* "analyze", "prompt", "ret"
    a_analysis, \* how analyze_repository ended, with the EvidenceSet
    a_prompt    \* how _prepare_prompt ended, with the prompt

a_vars == <<a_repo, a_fault, a_metadata, a_template, a_pc, a_analysis, a_prompt>>

VARIABLES
    \* ---- two runs of the workflow at the same time, on one scratch root
    r_url,  \* per run: its locator
    r_pc,   \* per run: "start", "cloning", "cloned", "done"
    r_path, \* per run: the name of clone_path below TEMP_DIR, once computed
    r_ret,  \* per run: what clone_repository returned: "none", "None", "path"
    r_disk  \* per name below TEMP_DIR: the run whose clone lies there, 0 for none

r_vars == <<r_url, r_pc, r_path, r_ret, r_disk>>

VARIABLES
    \* ---- what a run of the workflow does to the outside before it clones
    e_url,      \* the locator of the run
    e_cred,     \* whether the credential of the chosen provider is set
    e_pc,       \* "construct", "validate", "fetch", "clone", "generate", "done"
    e_log,      \* the effects so far, in order
    e_requests, \* the responses to the metadata requests made, in order
    e_meta,     \* how fetch_repo_metadata ended
    e_outcome   \* how the run ended ("running" until then)

e_vars == <<e_url, e_cred, e_pc, e_log, e_requests, e_meta, e_outcome>>

VARIABLES
    \* ---- installation (install_skill, uninstall_skill of the packager)
    i_skill,  \* skill_dir: its name and its files
    i_root,   \* per name: what lies under it in the installation root
    i_before, \* i_root when the last call began
    i_ret,    \* the last call and what it returned
    i_calls   \* the calls made so far, with what they returned

i_vars == <<i_skill, i_root, i_before, i_ret, i_calls>>

w_vars == <<mode, repo_url, pc, outcome, cpc, clone_path, clone_ret, clone_why,
            total_size, link, dirs, mutations, cloneCalls, gitCalls, cleanupCalls>>

vars == <<u_vars, w_vars, s_vars, p_vars, g_vars, c_vars, b_vars, h_vars, t_vars, a_vars, r_vars, e_vars, i_vars>>

\* the variables an action of one part leaves alone: those of the other parts
not_u_vars == <<w_vars, s_vars, p_vars, g_vars, c_vars, b_vars, h_vars, t_vars, a_vars, r_vars, e_vars, i_vars>>
not_w_vars == <<u_vars, s_vars, p_vars, g_vars, c_vars, b_vars, h_vars, t_vars, a_vars, r_vars, e_vars, i_vars>>
not_s_vars == <<u_vars, w_vars, p_vars, g_vars, c_vars, b_vars, h_vars, t_vars, a_vars, r_vars, e_vars, i_vars>>
not_p_vars == <<u_vars, w_vars, s_vars, g_vars, c_vars, b_vars, h_vars, t_vars, a_vars, r_vars, e_vars, i_vars>>
not_g_vars == <<u_vars, w_vars, s_vars, p_vars, c_vars, b_vars, h_vars, t_vars, a_vars, r_vars, e_vars, i_vars>>
not_c_vars == <<u_vars, w_vars, s_vars, p_vars, g_vars, b_vars, h_vars, t_vars, a_vars, r_vars, e_vars, i_vars>>
not_b_vars == <<u_vars, w_vars, s_vars, p_vars, g_vars, c_vars, h_vars, t_vars, a_vars, r_vars, e_vars, i_vars>>
not_wh_vars == <<u_vars, s_vars, p_vars, g_vars, c_vars, b_vars, t_vars, a_vars, r_vars, e_vars, i_vars>>
not_th_vars == <<u_vars, w_vars, s_vars, p_vars, g_vars, c_vars, b_vars, a_vars, r_vars, e_vars, i_vars>>
not_h_vars == <<u_vars, w_vars, s_vars, p_vars, g_vars, c_vars, b_vars, t_vars, a_vars, r_vars, e_vars, i_vars>>
not_t_vars == <<u_vars, w_vars, s_vars, p_vars, g_vars, c_vars, b_vars, h_vars, a_vars, r_vars, e_vars, i_vars>>
not_a_vars == <<u_vars, w_vars, s_vars, p_vars, g_vars, c_vars, b_vars, h_vars, t_vars, r_vars, e_vars, i_vars>>
not_r_vars == <<u_vars, w_vars, s_vars, p_vars, g_vars, c_vars, b_vars, h_vars, t_vars, a_vars, e_vars, i_vars>>
not_e_vars == <<u_vars, w_vars, s_vars, p_vars, g_vars, c_vars, b_vars, h_vars, t_vars, a_vars, r_vars, i_vars>>
not_i_vars == <<u_vars, w_vars, s_vars, p_vars, g_vars, c_vars, b_vars, h_vars, t_vars, a_vars, r_vars, e_vars>>

(***************************************************************************)
(* Characters and character classes                                        *)
(***************************************************************************)

Lowercase ==
    {"a","b","c","d","e","f","g","h","i","j","k","l","m",
     "n","o","p","q","r","s","t","u","v","w","x","y","z"}

Uppercase ==
    {"A","B","C","D","E","F","G","H","I","J","K","L","M",
     "N","O","P","Q","R","S","T","U","V","W","X","Y","Z"}

Digits == {"0","1","2","3","4","5","6","7","8","9"}

\* the class [a-zA-Z0-9_-] of the owner pattern and of the sanitizer
OwnerClass == Lowercase \cup Uppercase \cup Digits \cup {"_", "-"}

\* the class [a-zA-Z0-9_.-] of the repo pattern
RepoClass == OwnerClass \cup {"."}

\* urllib.parse.scheme_chars
SchemeChars == Lowercase \cup Uppercase \cup Digits \cup {"+", "-", "."}

\* the characters urlsplit deletes from the whole url before parsing
UnsafeUrlChars == {"\t", "\r", "\n"}

\* str.lower on one character
LowerChar(c) ==
    CASE c = "A" -> "a" [] c = "B" -> "b" [] c = "C" -> "c" [] c = "D" -> "d"
      [] c = "E" -> "e" [] c = "F" -> "f" [] c = "G" -> "g" [] c = "H" -> "h"
      [] c = "I" -> "i" [] c = "J" -> "j" [] c = "K" -> "k" [] c = "L" -> "l"
      [] c = "M" -> "m" [] c = "N" -> "n" [] c = "O" -> "o" [] c = "P" -> "p"
      [] c = "Q" -> "q" [] c = "R" -> "r" [] c = "S" -> "s" [] c = "T" -> "t"
      [] c = "U" -> "u" [] c = "V" -> "v" [] c = "W" -> "w" [] c = "X" -> "x"
      [] c = "Y" -> "y" [] c = "Z" -> "z" [] OTHER -> c

\* str.lower
Lower(s) == [i \in 1..Len(s) |-> LowerChar(s[i])]

(***************************************************************************)
(* String primitives of the Python runtime, on character sequences.        *)
(* Positions are 0-based as in Python; -1 is "not found".                  *)
(***************************************************************************)

\* s[a:b] for 0 <= a, 0 <= b (an empty slice when b <= a)
Slice(s, a, b) ==
    LET hi == IF b > Len(s) THEN Len(s) ELSE b
    IN  IF a >= hi THEN <<>> ELSE SubSeq(s, a + 1, hi)

\* s.startswith(p)
StartsWith(s, p) == Len(p) <= Len(s) /\ SubSeq(s, 1, Len(p)) = p

\* whether p occurs in s at 0-based position i
OccursAt(s, p, i) ==
    /\ i >= 0
    /\ i + Len(p) <= Len(s)
    /\ SubSeq(s, i + 1, i + Len(p)) = p

\* s.find(p): the least position of an occurrence, or -1
Find(s, p) ==
    LET hits == {i \in 0..Len(s) : OccursAt(s, p, i)}
    IN  IF hits = {} THEN -1
        ELSE CHOOSE i \in hits : \A j \in hits : i <= j

\* s.rfind(p): the greatest position of an occurrence, or -1
RFind(s, p) ==
    LET hits == {i \in 0..Len(s) : OccursAt(s, p, i)}
    IN  IF hits = {} THEN -1
        ELSE CHOOSE i \in hits : \A j \in hits : i >= j

\* p in s, for strings
Contains(s, p) == Find(s, p) # -1

\* s.strip(chars): leading and trailing characters of the set removed
StripChars(s, chars) ==
    LET keep == {i \in 1..Len(s) : s[i] \notin chars}
    IN  IF keep = {} THEN <<>>
        ELSE LET lo == CHOOSE i \in keep : \A j \in keep : i <= j
                 hi == CHOOSE i \in keep : \A j \in keep : i >= j
             IN  SubSeq(s, lo, hi)

\* s.split(d) for a one-character delimiter: always at least one piece
RECURSIVE Split(_, _)
Split(s, d) ==
    LET i == Find(s, <<d>>)
    IN  IF i = -1 THEN <<s>>
        ELSE <<Slice(s, 0, i)>> \o Split(Slice(s, i + 1, Len(s)), d)

\* s.replace(old, ""): every non-overlapping occurrence removed, left to right
RECURSIVE RemoveAll(_, _)
RemoveAll(s, old) ==
    LET i == Find(s, old)
    IN  IF i = -1 THEN s
        ELSE Slice(s, 0, i) \o RemoveAll(Slice(s, i + Len(old), Len(s)), old)

\* re.match(r'^[class]+$', s): '$' also matches just before one final newline
ReMatchClassPlus(s, class) ==
    LET core == IF s # <<>> /\ s[Len(s)] = "\n" THEN Slice(s, 0, Len(s) - 1) ELSE s
    IN  core # <<>> /\ \A i \in 1..Len(core) : core[i] \in class

\* re.sub(r'[^class]', rep, s)
ReSubOutside(s, class, rep) ==
    [i \in 1..Len(s) |-> IF s[i] \in class THEN s[i] ELSE rep]

(***************************************************************************)
(* urllib.parse.urlparse, as far as validate_github_url and                *)
(* extract_repo_info read its result: scheme, netloc and path.             *)
(***************************************************************************)

\* the leading characters urlsplit strips (C0 controls and space)
LeadingStripChars == {" ", "\t", "\r", "\n"}

\* url.lstrip(chars)
LStripChars(s, chars) ==
    LET keep == {i \in 1..Len(s) : s[i] \notin chars}
    IN  IF keep = {} THEN <<>>
        ELSE SubSeq(s, CHOOSE i \in keep : \A j \in keep : i <= j, Len(s))

\* the least position >= from of a character of the set, or Len(s)
FirstOf(s, chars, from) ==
    LET hits == {i \in from..(Len(s) - 1) : s[i + 1] \in chars}
    IN  IF hits = {} THEN Len(s)
        ELSE CHOOSE i \in hits : \A j \in hits : i <= j

\* Each step of urlsplit is an operator of its own, taking what the steps before
\* it computed, in the order of the library's assignments.

\* '[' without ']' in the netloc, or the reverse: urlsplit raises ValueError
bracket_mismatch(netloc) ==
    (\E k \in 1..Len(netloc) : netloc[k] = "[")
        # (\E k \in 1..Len(netloc) : netloc[k] = "]")

\* _splitparams: the path is cut at the first ';' of its last segment
path_without_params(p) ==
    Slice(p, 0, FirstOf(p, {";"}, IF RFind(p, <<"/">>) = -1 THEN 0 ELSE RFind(p, <<"/">>)))

\* the fragment ('#...') and the query ('?...') are cut off, then the params
path_of(rest) == path_without_params(Slice(rest, 0, FirstOf(rest, {"#", "?"}, 0)))

urlparse_result(scheme, netloc, rest) ==
    [raised |-> bracket_mismatch(netloc),
     scheme |-> scheme, netloc |-> netloc, path |-> path_of(rest)]

\* _splitnetloc: after '//' the netloc runs to the first of '/', '?', '#'
urlparse_after_scheme(scheme, u) ==
    IF Slice(u, 0, 2) = <<"/", "/">>
      THEN urlparse_result(scheme, Slice(u, 2, FirstOf(u, {"/", "?", "#"}, 2)),
                           Slice(u, FirstOf(u, {"/", "?", "#"}, 2), Len(u)))
      ELSE urlparse_result(scheme, <<>>, u)

\* the text before the first ':' is the scheme when it starts with a letter and
\* holds scheme characters only; it is lower-cased
urlparse_scheme(u, i) ==
    IF /\ i > 0
       /\ u[1] \in Lowercase \cup Uppercase
       /\ \A k \in 1..i : u[k] \in SchemeChars
      THEN urlparse_after_scheme(Lower(Slice(u, 0, i)), Slice(u, i + 1, Len(u)))
      ELSE urlparse_after_scheme(<<>>, u)

urlparse_cleaned(u) == urlparse_scheme(u, Find(u, <<":">>))

\* urlparse(url): [raised |-> ValueError was raised, scheme, netloc, path]
urlparse(url) ==
    urlparse_cleaned(SelectSeq(LStripChars(url, LeadingStripChars),
                               LAMBDA c : c \notin UnsafeUrlChars))

(***************************************************************************)
(* RepoAnalyzer.validate_github_url and extract_repo_info                  *)
(***************************************************************************)

\* the length limit of a locator
MaxUrlLen == 500

HTTPS == <<"h","t","t","p","s">>
GitHubHost == <<"g","i","t","h","u","b",".","c","o","m">>
WwwGitHubHost == <<"w","w","w",".">> \o GitHubHost
DotGit == <<".","g","i","t">>

\* parsed.path.strip('/').split('/')
path_parts(path) == Split(StripChars(path, {"/"}), "/")

\* s.endswith(p)
EndsWith(s, p) == Len(p) <= Len(s) /\ SubSeq(s, Len(s) - Len(p) + 1, Len(s)) = p

\* a netloc test that lets every host ending in github.com through
netloc_allowed_suffix(netloc) == EndsWith(netloc, GitHubHost)

\* the netloc test of validate_github_url
netloc_allowed(netloc) == netloc \in {GitHubHost, WwwGitHubHost}

\* path_parts[1].replace('.git', '')
repo_of(segment) == RemoveAll(segment, DotGit)

\* lines 57-69: the tests on the path segments
validate_parts(parts) ==
    IF Len(parts) < 2
      THEN [ok |-> FALSE, reason |-> "Invalid GitHub repository URL format"]
    ELSE IF ~ReMatchClassPlus(parts[1], OwnerClass)
      THEN [ok |-> FALSE, reason |-> "Invalid repository owner name"]
    ELSE IF ~ReMatchClassPlus(repo_of(parts[2]), RepoClass)
      THEN [ok |-> FALSE, reason |-> "Invalid repository name"]
    ELSE [ok |-> TRUE, reason |-> ""]

\* lines 41-55: the tests on the parsed url
validate_parsed(parsed) ==
    IF parsed.raised THEN [ok |-> FALSE, reason |-> "Invalid URL format"]
    ELSE IF parsed.scheme # HTTPS
      THEN [ok |-> FALSE, reason |-> "URL must use HTTPS protocol"]
    ELSE IF ~netloc_allowed(parsed.netloc)
      THEN [ok |-> FALSE, reason |-> "URL must be a GitHub repository"]
    ELSE validate_parts(path_parts(parsed.path))

\* validate_github_url with the length test written >= instead of >
validate_github_url_len_ge(url) ==
    IF url = <<>> THEN [ok |-> FALSE, reason |-> "URL cannot be empty"]
    ELSE IF Len(url) >= MaxUrlLen THEN [ok |-> FALSE, reason |-> "URL is too long"]
    ELSE validate_parsed(urlparse(url))

\* validate_github_url(url): the pair (is_valid, error_message)
validate_github_url(url) ==
    IF url = <<>> THEN [ok |-> FALSE, reason |-> "URL cannot be empty"]
    ELSE IF Len(url) > MaxUrlLen THEN [ok |-> FALSE, reason |-> "URL is too long"]
    ELSE validate_parsed(urlparse(url))

\* lines 81-88: the record extract_repo_info builds from the path segments
repo_info_of(parts) ==
    [owner |-> parts[1], repo |-> repo_of(parts[2]),
     full_name |-> parts[1] \o <<"/">> \o repo_of(parts[2])]

\* extract_repo_info(url), for a url with at least two path segments
extract_repo_info(url) == repo_info_of(path_parts(urlparse(url).path))

(***************************************************************************)
(* The scratch root and the filesystem.  A path is a sequence of           *)
(* components, each a character sequence; str(path) joins them with "/".   *)
(***************************************************************************)

\* config.TEMP_DIR, resolved: <base>/data/temp (the base directory is the root here)
TEMP_DIR == << <<"d","a","t","a">>, <<"t","e","m","p">> >>

\* str(path)
RECURSIVE PathStr(_)
PathStr(p) == IF p = <<>> THEN <<>> ELSE <<"/">> \o Head(p) \o PathStr(Tail(p))

\* no symbolic link in TEMP_DIR
NoLink == [name |-> <<>>, target |-> <<>>]

\* Path.resolve(): a symbolic link at TEMP_DIR/<name> is followed to its target
Resolve(p, lnk) ==
    IF lnk # NoLink /\ p = TEMP_DIR \o <<lnk.name>> THEN lnk.target ELSE p

\* the sanitizer of clone_repository: re.sub(r'[^a-zA-Z0-9_-]', '_', full_name)
safe_name(url) == ReSubOutside(extract_repo_info(url).full_name, OwnerClass, "_")

\* a containment test that lets every path through
within_temp_dir_unchecked(p) == TRUE

\* the containment test of clone_repository:
\* str(clone_path).startswith(str(TEMP_DIR.resolve()))
within_temp_dir(p) == StartsWith(PathStr(p), PathStr(TEMP_DIR))

\* q is p or lies below p
AtOrBelow(q, p) == Len(q) >= Len(p) /\ SubSeq(q, 1, Len(p)) = p

\* shutil.rmtree(p), when it succeeds: p and everything below it is gone
rmtree(ds, p) == {q \in ds : ~AtOrBelow(q, p)}

\* the size ceiling of a clone: 500 * 1024 * 1024
max_size == 500 * 1024 * 1024


(***************************************************************************)
(* RepoAnalyzer.clone_repository, step by step                             *)
(***************************************************************************)

\* the most files a finished clone holds here
MaxCloneFiles == 2

\* the file sizes tried
FileSizes == {0, 1, max_size - 1, max_size}

\* the lists of file sizes a finished clone may hold
FileSizeLists == UNION {[1..n -> FileSizes] : n \in 0..MaxCloneFiles}

\* sum(f.stat().st_size ...)
RECURSIVE SumSizes(_)
SumSizes(sizes) == IF sizes = <<>> THEN 0 ELSE Head(sizes) + SumSizes(Tail(sizes))

\* clone_repository returns None from the branch named why
CloneReturnsNone(why) ==
    /\ cpc' = "ret"
    /\ clone_ret' = "None"
    /\ clone_why' = why

\* an exception leaves clone_repository
CloneRaises(why) ==
    /\ cpc' = "ret"
    /\ clone_ret' = "raised"
    /\ clone_why' = why

\* lines 118-122 without the validation: every locator goes on to the clone
clone_validate_unchecked ==
    /\ cpc = "c_validate"
    /\ cpc' = "c_resolve"
    /\ UNCHANGED <<not_w_vars, mode, repo_url, pc, outcome, clone_path, clone_ret, clone_why,
                   total_size, link, dirs, mutations, cloneCalls, gitCalls,
                   cleanupCalls>>

\* lines 118-122: the locator is validated again; a failure returns None
clone_validate ==
    /\ cpc = "c_validate"
    /\ IF validate_github_url(repo_url).ok
         THEN cpc' = "c_resolve" /\ UNCHANGED <<clone_ret, clone_why>>
         ELSE CloneReturnsNone("invalid_url")
    /\ UNCHANGED <<not_w_vars, mode, repo_url, pc, outcome, clone_path, total_size, link, dirs,
                   mutations, cloneCalls, gitCalls, cleanupCalls>>

\* lines 130-138: the resolved path is tested (resolve() itself may raise: fault)
clone_check_resolved(resolved, fault) ==
    IF fault
      THEN CloneReturnsNone("resolve_error") /\ UNCHANGED clone_path
    ELSE IF ~within_temp_dir(resolved)
      THEN CloneReturnsNone("traversal") /\ clone_path' = resolved
    ELSE /\ cpc' = "c_remove"
         /\ clone_path' = resolved
         /\ UNCHANGED <<clone_ret, clone_why>>

\* lines 124-138: the scratch name is derived, the path resolved and tested.
\* extract_repo_info indexes path_parts[1]: with fewer than two segments that is
\* an IndexError, outside every try.
clone_resolve ==
    /\ cpc = "c_resolve"
    /\ \E fault \in BOOLEAN :
        IF Len(path_parts(urlparse(repo_url).path)) < 2
          THEN CloneRaises("index_error") /\ UNCHANGED clone_path
          ELSE clone_check_resolved(
                   Resolve(TEMP_DIR \o <<safe_name(repo_url)>>, link), fault)
    /\ UNCHANGED <<not_w_vars, mode, repo_url, pc, outcome, total_size, link, dirs, mutations,
                   cloneCalls, gitCalls, cleanupCalls>>

\* lines 140-146: an existing clone is removed; a failing rmtree returns None
clone_remove_existing ==
    /\ cpc = "c_remove"
    /\ IF clone_path \in dirs
         THEN \E rm_ok \in BOOLEAN :
                /\ mutations' = mutations \cup {[op |-> "rmtree", path |-> clone_path]}
                /\ IF rm_ok
                     THEN /\ dirs' = rmtree(dirs, clone_path)
                          /\ cpc' = "c_git"
                          /\ UNCHANGED <<clone_ret, clone_why>>
                     ELSE /\ CloneReturnsNone("remove_error")
                          /\ UNCHANGED dirs
         ELSE /\ cpc' = "c_git"
              /\ UNCHANGED <<clone_ret, clone_why, dirs, mutations>>
    /\ UNCHANGED <<not_w_vars, mode, repo_url, pc, outcome, clone_path, total_size, link,
                   cloneCalls, gitCalls, cleanupCalls>>

\* lines 148-160: git.Repo.clone_from.  It succeeds and leaves the files, or
\* raises GitCommandError or another exception, with or without a partial clone
\* left at clone_path.
clone_git ==
    /\ cpc = "c_git"
    /\ gitCalls' = gitCalls + 1
    /\ mutations' = mutations \cup {[op |-> "clone", path |-> clone_path]}
    /\ \E r \in {"ok", "git_error", "other_error"}, left \in BOOLEAN,
          sizes \in FileSizeLists :
        IF r = "ok"
          THEN /\ dirs' = dirs \cup {clone_path}
               /\ total_size' = SumSizes(sizes)
               /\ cpc' = "c_size"
               /\ UNCHANGED clone_why
          ELSE /\ dirs' = IF left THEN dirs \cup {clone_path} ELSE dirs
               /\ cpc' = "c_handler"
               /\ clone_why' = r
               /\ UNCHANGED total_size
    /\ UNCHANGED <<not_w_vars, mode, repo_url, pc, outcome, clone_path, clone_ret, link,
                   cloneCalls, cleanupCalls>>

\* the size test of lines 162-170 with the oversized clone left on disk
clone_size_check_keep ==
    /\ cpc = "c_size"
    /\ \E stat_fault \in BOOLEAN, rm_ok \in BOOLEAN :
        IF stat_fault
          THEN /\ cpc' = "c_handler"
               /\ clone_why' = "stat_error"
               /\ UNCHANGED <<clone_ret, dirs, mutations>>
        ELSE IF total_size > max_size
          THEN /\ CloneReturnsNone("too_large")
               /\ UNCHANGED <<dirs, mutations>>
        ELSE /\ cpc' = "ret"
             /\ clone_ret' = "path"
             /\ UNCHANGED <<clone_why, dirs, mutations>>
    /\ UNCHANGED <<not_w_vars, mode, repo_url, pc, outcome, clone_path, total_size, link,
                   cloneCalls, gitCalls, cleanupCalls>>

\* lines 162-170: the sizes are summed (a stat may fail: stat_fault); above the
\* ceiling the clone is removed and None returned; a failing rmtree is an
\* exception that the handlers of lines 172-181 catch
clone_size_check ==
    /\ cpc = "c_size"
    /\ \E stat_fault \in BOOLEAN, rm_ok \in BOOLEAN :
        IF stat_fault
          THEN /\ cpc' = "c_handler"
               /\ clone_why' = "stat_error"
               /\ UNCHANGED <<clone_ret, dirs, mutations>>
        ELSE IF total_size > max_size
          THEN /\ mutations' = mutations \cup {[op |-> "rmtree", path |-> clone_path]}
               /\ IF rm_ok
                    THEN /\ dirs' = rmtree(dirs, clone_path)
                         /\ CloneReturnsNone("too_large")
                    ELSE /\ cpc' = "c_handler"
                         /\ clone_why' = "too_large"
                         /\ UNCHANGED <<clone_ret, dirs>>
        ELSE /\ cpc' = "ret"
             /\ clone_ret' = "path"
             /\ UNCHANGED <<clone_why, dirs, mutations>>
    /\ UNCHANGED <<not_w_vars, mode, repo_url, pc, outcome, clone_path, total_size, link,
                   cloneCalls, gitCalls, cleanupCalls>>

\* lines 172-181: either handler removes what exists at clone_path and returns
\* None; an rmtree failing here leaves the function as an exception
clone_handler ==
    /\ cpc = "c_handler"
    /\ IF clone_path \in dirs
         THEN \E rm_ok \in BOOLEAN :
                /\ mutations' = mutations \cup {[op |-> "rmtree", path |-> clone_path]}
                /\ IF rm_ok
                     THEN /\ dirs' = rmtree(dirs, clone_path)
                          /\ CloneReturnsNone(clone_why)
                     ELSE /\ CloneRaises(clone_why)
                          /\ UNCHANGED dirs
         ELSE /\ CloneReturnsNone(clone_why)
              /\ UNCHANGED <<dirs, mutations>>
    /\ UNCHANGED <<not_w_vars, mode, repo_url, pc, outcome, clone_path, total_size, link,
                   cloneCalls, gitCalls, cleanupCalls>>

\* RepoAnalyzer.clone_repository: one step of it
clone_repository ==
    \/ clone_validate
    \/ clone_resolve
    \/ clone_remove_existing
    \/ clone_git
    \/ clone_size_check
    \/ clone_handler


(***************************************************************************)
(* generate_skill_workflow of app.py, step by step, and a caller that      *)
(* calls clone_repository directly                                         *)
(***************************************************************************)

\* the workflow returns (or its except clause has run) with the given outcome
WorkflowEnds(how) ==
    /\ pc' = "w_done"
    /\ outcome' = how

\* RepoAnalyzer.cleanup(repo_path): rmtree when the path exists; its failure is
\* printed and swallowed
cleanup ==
    /\ cleanupCalls' = cleanupCalls + 1
    /\ IF clone_path \in dirs
         THEN \E rm_ok \in BOOLEAN :
                /\ mutations' = mutations \cup {[op |-> "rmtree", path |-> clone_path]}
                /\ dirs' = IF rm_ok THEN rmtree(dirs, clone_path) ELSE dirs
         ELSE UNCHANGED <<dirs, mutations>>

\* lines 356-393: the components are constructed (create_generator may raise)
workflow_construct ==
    /\ mode = "workflow"
    /\ pc = "w_construct"
    /\ \E raised \in BOOLEAN :
        IF raised THEN WorkflowEnds("exception")
        ELSE pc' = "w_validate" /\ UNCHANGED outcome
    /\ UNCHANGED <<not_w_vars, mode, repo_url, cpc, clone_path, clone_ret, clone_why, total_size,
                   link, dirs, mutations, cloneCalls, gitCalls, cleanupCalls>>

\* lines 395-402: step 1, the locator is validated
workflow_validate_url ==
    /\ mode = "workflow"
    /\ pc = "w_validate"
    /\ IF validate_github_url(repo_url).ok
         THEN pc' = "w_fetch" /\ UNCHANGED outcome
         ELSE WorkflowEnds("invalid_url")
    /\ UNCHANGED <<not_w_vars, mode, repo_url, cpc, clone_path, clone_ret, clone_why, total_size,
                   link, dirs, mutations, cloneCalls, gitCalls, cleanupCalls>>

\* lines 404-410: the metadata is fetched; None ends the run
workflow_fetch_metadata ==
    /\ mode = "workflow"
    /\ pc = "w_fetch"
    /\ \E fetched \in BOOLEAN :
        IF fetched THEN pc' = "w_clone" /\ UNCHANGED outcome
        ELSE WorkflowEnds("no_metadata")
    /\ UNCHANGED <<not_w_vars, mode, repo_url, cpc, clone_path, clone_ret, clone_why, total_size,
                   link, dirs, mutations, cloneCalls, gitCalls, cleanupCalls>>

\* line 414: clone_repository is called
workflow_call_clone ==
    /\ mode = "workflow"
    /\ pc = "w_clone"
    /\ cpc = "idle"
    /\ pc' = "w_cloning"
    /\ cpc' = "c_validate"
    /\ cloneCalls' = cloneCalls + 1
    /\ UNCHANGED <<not_w_vars, mode, repo_url, outcome, clone_path, clone_ret, clone_why,
                   total_size, link, dirs, mutations, gitCalls, cleanupCalls>>

\* lines 414-418: clone_repository has returned; None ends the run, an exception
\* is caught by the except clause of lines 489-492
workflow_after_clone ==
    /\ mode = "workflow"
    /\ pc = "w_cloning"
    /\ cpc = "ret"
    /\ IF clone_ret = "path" THEN pc' = "w_analyze" /\ UNCHANGED outcome
       ELSE IF clone_ret = "None" THEN WorkflowEnds("clone_failed")
       ELSE WorkflowEnds("exception")
    /\ UNCHANGED <<not_w_vars, mode, repo_url, cpc, clone_path, clone_ret, clone_why, total_size,
                   link, dirs, mutations, cloneCalls, gitCalls, cleanupCalls>>

\* lines 420-422: analyze_repository returns or raises
workflow_analyze ==
    /\ mode = "workflow"
    /\ pc = "w_analyze"
    /\ \E raised \in BOOLEAN :
        IF raised THEN WorkflowEnds("exception")
        ELSE pc' = "w_generate" /\ UNCHANGED outcome
    /\ UNCHANGED <<not_w_vars, mode, repo_url, cpc, clone_path, clone_ret, clone_why, total_size,
                   link, dirs, mutations, cloneCalls, gitCalls, cleanupCalls>>

\* lines 424-436: generate_skill returns a document, returns None (cleanup, then
\* return) or raises (its _prepare_prompt runs outside its try)
workflow_generate ==
    /\ mode = "workflow"
    /\ pc = "w_generate"
    /\ \E r \in {"document", "none", "raised"} :
        IF r = "document"
          THEN /\ pc' = "w_build"
               /\ UNCHANGED <<outcome, dirs, mutations, cleanupCalls>>
        ELSE IF r = "none"
          THEN cleanup /\ WorkflowEnds("generation_failed")
        ELSE /\ WorkflowEnds("exception")
             /\ UNCHANGED <<dirs, mutations, cleanupCalls>>
    /\ UNCHANGED <<not_w_vars, mode, repo_url, cpc, clone_path, clone_ret, clone_why, total_size,
                   link, cloneCalls, gitCalls>>

\* lines 438-440: build_skill returns the skill directory or raises
workflow_build ==
    /\ mode = "workflow"
    /\ pc = "w_build"
    /\ \E raised \in BOOLEAN :
        IF raised THEN WorkflowEnds("exception")
        ELSE pc' = "w_validate_skill" /\ UNCHANGED outcome
    /\ UNCHANGED <<not_w_vars, mode, repo_url, cpc, clone_path, clone_ret, clone_why, total_size,
                   link, dirs, mutations, cloneCalls, gitCalls, cleanupCalls>>

\* what validate_skill returns: (is_valid, message), or the exception it raises
Validated(is_valid, message) == [kind |-> "ret", is_valid |-> is_valid, message |-> message]
ValidationRaised == [kind |-> "raise", is_valid |-> FALSE, message |-> "none"]
NoValidation == [kind |-> "none", is_valid |-> FALSE, message |-> "none"]

\* what the validation script's process does, and what the fallback finds
ScriptRuns == {"exit 0", "exit 1", "timeout", "not started"}
FallbackFindings == {"no errors", "errors", "read fails"}

\* _fallback_validation (validator.py lines 58-98): SKILL.md is read outside
\* any try
fallback_validation(finding) ==
    CASE finding = "no errors" -> Validated(TRUE, "Skill structure is valid (basic validation)")
      [] finding = "errors" -> Validated(FALSE, "Validation errors")
      [] finding = "read fails" -> ValidationRaised

\* validate_skill (validator.py lines 19-56)
validate_skill(script_exists, run, finding) ==
    IF ~script_exists THEN fallback_validation(finding)
    ELSE CASE run = "exit 0" -> Validated(TRUE, "Skill is valid!")
           [] run = "exit 1" -> Validated(FALSE, "Validation failed")
           [] run = "timeout" -> Validated(FALSE, "Validation timed out")
           [] run = "not started" -> Validated(FALSE, "Validation error")

\* lines 446-447 with a failing result ending the run
after_validation_fatal(result) ==
    IF result.kind = "raise" THEN WorkflowEnds("exception")
    ELSE IF ~result.is_valid THEN WorkflowEnds("validation_failed")
    ELSE pc' = "w_package" /\ UNCHANGED outcome

\* lines 444-450: a result, whatever is_valid is, is followed by packaging (a
\* failing one after a warning); an exception goes to the except clause
after_validation(result) ==
    IF result.kind = "raise" THEN WorkflowEnds("exception")
    ELSE pc' = "w_package" /\ UNCHANGED outcome

\* lines 442-447: validate_skill is called
workflow_validate_skill ==
    /\ mode = "workflow"
    /\ pc = "w_validate_skill"
    /\ \E script_exists \in BOOLEAN, run \in ScriptRuns, finding \in FallbackFindings :
        /\ validation' = validate_skill(script_exists, run, finding)
        /\ after_validation(validate_skill(script_exists, run, finding))
    /\ UNCHANGED <<not_wh_vars, packaging, history, stored, rerun>>
    /\ UNCHANGED <<mode, repo_url, cpc, clone_path, clone_ret, clone_why, total_size,
                   link, dirs, mutations, cloneCalls, gitCalls, cleanupCalls>>

\* lines 449-459: package_skill catches every exception itself; a failure is
\* cleanup and return, a success is the cleanup of line 459
workflow_package ==
    /\ mode = "workflow"
    /\ pc = "w_package"
    /\ cleanup
    /\ \E success \in BOOLEAN :
        /\ packaging' = Append(packaging, success)
        /\ IF success THEN pc' = "w_save" /\ UNCHANGED outcome
           ELSE WorkflowEnds("package_failed")
    /\ UNCHANGED <<not_wh_vars, validation, history, stored, rerun>>
    /\ UNCHANGED <<mode, repo_url, cpc, clone_path, clone_ret, clone_why, total_size,
                   link, cloneCalls, gitCalls>>

\* a row of the skills table (database.py lines 67-82), as far as it is told apart
HistoryRow(url, status, error) == [repo_url |-> url, status |-> status, error |-> error]

\* st.session_state.last_generated_skill
NoResult == [set |-> FALSE, repo_url |-> <<>>]
StoredResult(url) == [set |-> TRUE, repo_url |-> url]

\* lines 461-487: db.add_skill writes the history row with status "success"
\* (or raises, and nothing is written), the result is stored in the session
\* state, and st.rerun() ends the script run
workflow_save ==
    /\ mode = "workflow"
    /\ pc = "w_save"
    /\ \E raised \in BOOLEAN :
        IF raised
          THEN WorkflowEnds("exception") /\ UNCHANGED <<history, stored, rerun>>
          ELSE /\ history' = Append(history, HistoryRow(repo_url, "success", "none"))
               /\ stored' = StoredResult(repo_url)
               /\ rerun' = TRUE
               /\ WorkflowEnds("success")
    /\ UNCHANGED <<not_wh_vars, validation, packaging>>
    /\ UNCHANGED <<mode, repo_url, cpc, clone_path, clone_ret, clone_why, total_size,
                   link, dirs, mutations, cloneCalls, gitCalls, cleanupCalls>>

\* app.generate_skill_workflow: one step of it
generate_skill_workflow ==
    \/ workflow_construct
    \/ workflow_validate_url
    \/ workflow_fetch_metadata
    \/ workflow_call_clone
    \/ workflow_after_clone
    \/ workflow_analyze
    \/ workflow_generate
    \/ workflow_build
    \/ workflow_validate_skill
    \/ workflow_package
    \/ workflow_save

\* a caller calls clone_repository(repo_url) directly
direct_call_clone ==
    /\ mode = "direct"
    /\ pc = "d_call"
    /\ cpc = "idle"
    /\ pc' = "d_cloning"
    /\ cpc' = "c_validate"
    /\ cloneCalls' = cloneCalls + 1
    /\ UNCHANGED <<not_w_vars, mode, repo_url, outcome, clone_path, clone_ret, clone_why,
                   total_size, link, dirs, mutations, gitCalls, cleanupCalls>>

\* the direct call has returned (or raised)
direct_after_clone ==
    /\ mode = "direct"
    /\ pc = "d_cloning"
    /\ cpc = "ret"
    /\ pc' = "d_done"
    /\ UNCHANGED <<not_w_vars, mode, repo_url, outcome, cpc, clone_path, clone_ret, clone_why,
                   total_size, link, dirs, mutations, cloneCalls, gitCalls,
                   cleanupCalls>>

(***************************************************************************)
(* RepoAnalyzer._extract_code_samples.  A repository tree is the sequence  *)
(* of its files in the order rglob yields them; a file is                  *)
(* [rel: its path below the repository, size: st_size, readable: whether   *)
(* open/read succeed].  The files hold one-byte characters, so a file of   *)
(* size n holds n characters; a sample's content is modelled by its        *)
(* length.                                                                 *)
(***************************************************************************)

\* code_extensions, in the order of the list
code_extensions == << <<".","p","y">>, <<".","j","s">>, <<".","j","a","v","a">>, <<".","g","o">>, <<".","r","s">>, <<".","t","s">>, <<".","t","s","x">> >>

\* max_samples, the default of the parameter
max_samples == 5

\* max_file_size: 100 * 1024
max_file_size == 100 * 1024

\* f.read(5000)
ReadWindow == 5000

\* content[:2000]
ContentCap == 2000

Min(a, b) == IF a <= b THEN a ELSE b

\* the first n elements of a sequence: s[:n]
Take(s, n) == SubSeq(s, 1, Min(n, Len(s)))

\* str(file_path.relative_to(repo_path))
RECURSIVE RelStr(_)
RelStr(rel) ==
    IF Len(rel) = 1 THEN Head(rel) ELSE Head(rel) \o <<"/">> \o RelStr(Tail(rel))

TestWord == <<"t","e","s","t">>

\* line 263 with the test on the path as it is written, not lower-cased
skips_test_case_sensitive(file_path) == Contains(PathStr(file_path), TestWord)

\* line 263: 'test' in str(file_path).lower()
skips_test(file_path) == Contains(Lower(PathStr(file_path)), TestWord)

\* line 267: any(part.startswith('.') for part in file_path.parts)
skips_hidden(file_path) ==
    \E k \in 1..Len(file_path) : StartsWith(file_path[k], <<".">>)

\* lines 263-286: whether the file at repo_path/f.rel yields a sample
yields_sample(repo_path, f) ==
    /\ ~skips_test(repo_path \o f.rel)
    /\ ~skips_hidden(repo_path \o f.rel)
    /\ ~(f.size > max_file_size \/ f.size = 0)
    /\ f.readable

\* lines 277-281: the sample of a file found under the extension ext
sample_of(f, ext) ==
    [file |-> RelStr(f.rel), language |-> Tail(ext),
     content_len |-> Min(Min(f.size, ReadWindow), ContentCap)]

\* lines 261-286: the loop over the files of one extension
RECURSIVE scan_files(_, _, _, _)
scan_files(repo_path, files, ext, samples) ==
    IF files = <<>> THEN samples
    ELSE IF ~yields_sample(repo_path, Head(files))
      THEN scan_files(repo_path, Tail(files), ext, samples)
    ELSE IF Len(samples) + 1 >= max_samples
      THEN Append(samples, sample_of(Head(files), ext))
    ELSE scan_files(repo_path, Tail(files), ext,
                    Append(samples, sample_of(Head(files), ext)))

\* repo_path.rglob("*" + ext): the files whose name ends with ext
rglob(tree, ext) == SelectSeq(tree, LAMBDA f : EndsWith(f.rel[Len(f.rel)], ext))

\* the loop over the extensions, left after any of them with max_samples samples
RECURSIVE after_extension(_, _, _, _, _)

\* lines 258-289: the loop over the extensions from the k-th on; rglob raising
\* at the extension numbered fault ends the whole loop (lines 291-292)
RECURSIVE scan_extensions(_, _, _, _, _)
scan_extensions(repo_path, tree, k, fault, samples) ==
    IF k > Len(code_extensions) \/ k = fault THEN samples
    ELSE after_extension(repo_path, tree, k, fault,
             scan_files(repo_path,
                        Take(rglob(tree, code_extensions[k]), max_samples * 2),
                        code_extensions[k], samples))

after_extension(repo_path, tree, k, fault, samples) ==
    IF Len(samples) >= max_samples THEN samples
    ELSE scan_extensions(repo_path, tree, k + 1, fault, samples)

\* _extract_code_samples(repo_path)
extract_code_samples(repo_path, tree, fault) ==
    scan_extensions(repo_path, tree, 1, fault, <<>>)

\* the files a tree may hold besides its test files, in rglob's order
FilePool ==
    << [rel |-> <<<<"a",".","p","y">>>>, size |-> 1, readable |-> TRUE],
       [rel |-> <<<<"s","r","c">>, <<"b",".","p","y">>>>, size |-> max_file_size, readable |-> TRUE],
       [rel |-> <<<<"T","e","s","t">>, <<"c",".","p","y">>>>, size |-> 1, readable |-> TRUE],
       [rel |-> <<<<"s","r","c">>, <<"c","o","n","t","e","s","t",".","p","y">>>>, size |-> 1, readable |-> TRUE],
       [rel |-> <<<<".","h","i","d">>, <<"d",".","p","y">>>>, size |-> 1, readable |-> TRUE],
       [rel |-> <<<<"s","r","c">>, <<".","e",".","p","y">>>>, size |-> 1, readable |-> TRUE],
       [rel |-> <<<<"b","i","g",".","p","y">>>>, size |-> max_file_size + 1, readable |-> TRUE],
       [rel |-> <<<<"e","m","p","t","y",".","p","y">>>>, size |-> 0, readable |-> TRUE],
       [rel |-> <<<<"l","o","c","k","e","d",".","p","y">>>>, size |-> 1, readable |-> FALSE],
       [rel |-> <<<<"m",".","j","s">>>>, size |-> ContentCap + 1, readable |-> TRUE],
       [rel |-> <<<<"n",".","j","a","v","a">>>>, size |-> ReadWindow + 1, readable |-> TRUE],
       [rel |-> <<<<"p",".","t","s">>>>, size |-> 1, readable |-> TRUE],
       [rel |-> <<<<"q",".","t","s","x">>>>, size |-> ContentCap, readable |-> TRUE] >>

\* the most test_*.py files a tree holds (they come first in rglob's order)
MaxTestFiles == 11

\* the last extension at which rglob may be made to raise
MaxFaultExt == 2

\* the k-th test file: test, k times x, .py
TestFile(k) ==
    [rel |-> << <<"t","e","s","t">> \o [i \in 1..k |-> "x"] \o <<".","p","y">> >>,
     size |-> 1, readable |-> TRUE]

\* the tree holding n test files and the pool files numbered in chosen
TreeOf(n, chosen) ==
    [k \in 1..n |-> TestFile(k)]
        \o SelectSeq(FilePool, LAMBDA f : \E i \in chosen : FilePool[i] = f)

\* the repositories analysed: the clones of o/r and of o/latest
SampleRepos ==
    { TEMP_DIR \o << <<"o","_","r">> >>,
      TEMP_DIR \o << <<"o","_","l","a","t","e","s","t">> >> }

NoSamples == <<>>

SamplesIdle ==
    /\ s_repo = <<>>
    /\ s_tree = <<>>
    /\ s_fault = 0
    /\ s_pc = "idle"
    /\ s_samples = NoSamples

SamplesInit ==
    /\ s_repo \in SampleRepos
    /\ \E n \in {0, MaxTestFiles - 1, MaxTestFiles},
          chosen \in SUBSET (1..Len(FilePool)) : s_tree = TreeOf(n, chosen)
    /\ s_fault \in 0..MaxFaultExt
    /\ s_pc = "call"
    /\ s_samples = NoSamples

\* one call of _extract_code_samples
SamplesExtract ==
    /\ s_pc = "call"
    /\ s_samples' = extract_code_samples(s_repo, s_tree, s_fault)
    /\ s_pc' = "ret"
    /\ UNCHANGED <<s_repo, s_tree, s_fault, not_s_vars>>

(***************************************************************************)
(* json.loads, as _parse_response calls it.  A JSON value is a record      *)
(* tagged by its Python type: a dict holds a function from its keys, a     *)
(* list a sequence, a str its characters, an int its number.  The texts    *)
(* hold no fraction, exponent, NaN, Infinity and no escape other than the  *)
(* ones of Escapes, so the scanner stops at those.  Positions are 1-based  *)
(* indices into the text.                                                  *)
(***************************************************************************)

JNull == [t |-> "null"]
JBool(b) == [t |-> "bool", b |-> b]
JNum(n) == [t |-> "num", n |-> n]
JStr(s) == [t |-> "str", s |-> s]
JList(items) == [t |-> "list", items |-> items]
JDict(m) == [t |-> "dict", m |-> m]

\* a scan that raised JSONDecodeError
ScanFail == [ok |-> FALSE]

\* a scan that produced the value v and stopped before position next
ScanOk(v, next) == [ok |-> TRUE, val |-> v, next |-> next]

\* json.decoder.WHITESPACE: [ \t\n\r]*
JsonWs == {" ", "\t", "\n", "\r"}

\* the position of the first character at or after i that is not whitespace
RECURSIVE SkipWs(_, _)
SkipWs(s, i) == IF i <= Len(s) /\ s[i] \in JsonWs THEN SkipWs(s, i + 1) ELSE i

\* json.decoder.BACKSLASH, for the characters of the texts
Escapes ==
    [c \in {"\"", "\\", "/", "n", "r", "t"} |->
        CASE c = "n" -> "\n" [] c = "r" -> "\r" [] c = "t" -> "\t" [] OTHER -> c]

\* py_scanstring from position i, just after the opening quote (strict mode:
\* a raw control character ends the scan with an error)
RECURSIVE scan_string(_, _, _)
scan_string(s, i, acc) ==
    IF i > Len(s) THEN ScanFail
    ELSE IF s[i] = "\"" THEN ScanOk(JStr(acc), i + 1)
    ELSE IF s[i] = "\\"
      THEN IF i + 1 <= Len(s) /\ s[i + 1] \in DOMAIN Escapes
             THEN scan_string(s, i + 2, Append(acc, Escapes[s[i + 1]]))
             ELSE ScanFail
    ELSE IF s[i] \in {"\n", "\r", "\t"} THEN ScanFail
    ELSE scan_string(s, i + 1, Append(acc, s[i]))

\* int() of one digit
DigitVal(c) ==
    CASE c = "0" -> 0 [] c = "1" -> 1 [] c = "2" -> 2 [] c = "3" -> 3
      [] c = "4" -> 4 [] c = "5" -> 5 [] c = "6" -> 6 [] c = "7" -> 7
      [] c = "8" -> 8 [] c = "9" -> 9

\* the digits [1-9]\d* of NUMBER_RE, from position i
RECURSIVE scan_digits(_, _, _)
scan_digits(s, i, n) ==
    IF i <= Len(s) /\ s[i] \in Digits
    THEN scan_digits(s, i + 1, 10 * n + DigitVal(s[i]))
    ELSE ScanOk(JNum(n), i)

\* the integer part (0|[1-9]\d*) of NUMBER_RE
scan_int(s, i) ==
    IF i > Len(s) \/ s[i] \notin Digits THEN ScanFail
    ELSE IF s[i] = "0" THEN ScanOk(JNum(0), i + 1)
    ELSE scan_digits(s, i, 0)

\* the sign of NUMBER_RE applied to the scanned integer
negated(r) == IF r.ok THEN ScanOk(JNum(0 - r.val.n), r.next) ELSE ScanFail

\* NUMBER_RE at position i
scan_number(s, i) ==
    IF s[i] = "-" THEN negated(scan_int(s, i + 1)) ELSE scan_int(s, i)

NullWord == <<"n","u","l","l">>
TrueWord == <<"t","r","u","e">>
FalseWord == <<"f","a","l","s","e">>

RECURSIVE scan_value(_, _)
RECURSIVE scan_key(_, _, _)
RECURSIVE after_element(_, _, _)

\* JSONObject: after a member, "}" ends the object and "," asks for a key
member_end(s, i, m) ==
    IF i > Len(s) THEN ScanFail
    ELSE IF s[i] = "}" THEN ScanOk(JDict(m), i + 1)
    ELSE IF s[i] = "," THEN scan_key(s, SkipWs(s, i + 1), m)
    ELSE ScanFail

\* JSONObject: the member's value v is stored under key (a later equal key
\* replaces an earlier one)
after_member(s, v, key, m) ==
    IF ~v.ok THEN ScanFail
    ELSE member_end(s, SkipWs(s, v.next), (key :> v.val) @@ m)

\* JSONObject: the ":" after a key, then the member's value
member_colon(s, i, key, m) ==
    IF i > Len(s) \/ s[i] # ":" THEN ScanFail
    ELSE after_member(s, scan_value(s, SkipWs(s, i + 1)), key, m)

\* JSONObject: the key k has been scanned
after_key(s, k, m) ==
    IF ~k.ok THEN ScanFail ELSE member_colon(s, SkipWs(s, k.next), k.val.s, m)

\* JSONObject: a key, which must be a string
scan_key(s, i, m) ==
    IF i > Len(s) \/ s[i] # "\"" THEN ScanFail
    ELSE after_key(s, scan_string(s, i + 1, <<>>), m)

\* JSONObject from position i, after "{" and whitespace
scan_object(s, i) ==
    IF i <= Len(s) /\ s[i] = "}" THEN ScanOk(JDict(<<>>), i + 1)
    ELSE scan_key(s, i, <<>>)

\* JSONArray: after an element, "]" ends the array and "," asks for a value
element_end(s, i, items) ==
    IF i > Len(s) THEN ScanFail
    ELSE IF s[i] = "]" THEN ScanOk(JList(items), i + 1)
    ELSE IF s[i] = ","
      THEN after_element(s, scan_value(s, SkipWs(s, i + 1)), items)
    ELSE ScanFail

\* JSONArray: the element v has been scanned
after_element(s, v, items) ==
    IF ~v.ok THEN ScanFail
    ELSE element_end(s, SkipWs(s, v.next), Append(items, v.val))

\* JSONArray from position i, after "[" and whitespace
scan_array(s, i) ==
    IF i <= Len(s) /\ s[i] = "]" THEN ScanOk(JList(<<>>), i + 1)
    ELSE after_element(s, scan_value(s, i), <<>>)

\* json.scanner.py_make_scanner._scan_once at position i
scan_value(s, i) ==
    IF i > Len(s) THEN ScanFail
    ELSE IF s[i] = "\"" THEN scan_string(s, i + 1, <<>>)
    ELSE IF s[i] = "{" THEN scan_object(s, SkipWs(s, i + 1))
    ELSE IF s[i] = "[" THEN scan_array(s, SkipWs(s, i + 1))
    ELSE IF OccursAt(s, NullWord, i - 1) THEN ScanOk(JNull, i + 4)
    ELSE IF OccursAt(s, TrueWord, i - 1) THEN ScanOk(JBool(TRUE), i + 4)
    ELSE IF OccursAt(s, FalseWord, i - 1) THEN ScanOk(JBool(FALSE), i + 5)
    ELSE IF s[i] \in Digits \cup {"-"} THEN scan_number(s, i)
    ELSE ScanFail

\* JSONDecoder.decode: only whitespace may follow the value
loads_end(s, r) ==
    IF r.ok /\ SkipWs(s, r.next) = Len(s) + 1
    THEN [ok |-> TRUE, val |-> r.val]
    ELSE ScanFail

\* json.loads(s): [ok |-> TRUE, val |-> the value], or ScanFail for JSONDecodeError
json_loads(s) == loads_end(s, scan_value(s, SkipWs(s, 1)))


(***************************************************************************)
(* BaseSkillGenerator._validate_skill_data and _parse_response.            *)
(***************************************************************************)

K_skill_md == <<"s","k","i","l","l","_","m","d">>
K_references == <<"r","e","f","e","r","e","n","c","e","s">>
K_templates == <<"t","e","m","p","l","a","t","e","s">>
K_frontmatter == <<"f","r","o","n","t","m","a","t","t","e","r">>
K_content == <<"c","o","n","t","e","n","t">>
K_name == <<"n","a","m","e">>
K_description == <<"d","e","s","c","r","i","p","t","i","o","n">>
K_filename == <<"f","i","l","e","n","a","m","e">>

\* required_keys
required_keys == {K_skill_md, K_references, K_templates}

\* whether Python evaluates "key in c" without TypeError
supports_in(c) == c.t \in {"dict", "list", "str"}

\* "key in c" for a str key: a key of a dict, an element of a list, a
\* substring of a str
py_in(key, c) ==
    CASE c.t = "dict" -> key \in DOMAIN c.m
      [] c.t = "list" ->
            \E i \in 1..Len(c.items) : c.items[i].t = "str" /\ c.items[i].s = key
      [] c.t = "str" -> Contains(c.s, key)

\* lines 185-192: references and templates must be lists
validate_lists(data) ==
    IF data.m[K_references].t # "list" THEN "False"
    ELSE IF data.m[K_templates].t # "list" THEN "False"
    ELSE "True"

\* lines 181-183: 'name' and 'description' must be "in" frontmatter
validate_frontmatter(data, frontmatter) ==
    IF ~supports_in(frontmatter) THEN "TypeError"
    ELSE IF ~py_in(K_name, frontmatter) \/ ~py_in(K_description, frontmatter)
      THEN "False"
    ELSE validate_lists(data)

\* lines 174-179: skill_md must be a dict with frontmatter and content
validate_skill_md(data, skill_md) ==
    IF skill_md.t # "dict" THEN "False"
    ELSE IF K_frontmatter \notin DOMAIN skill_md.m \/ K_content \notin DOMAIN skill_md.m
      THEN "False"
    ELSE validate_frontmatter(data, skill_md.m[K_frontmatter])

\* _validate_skill_data(data): "True", "False", or the exception it raises
\* ("key in data" on a value without membership, data.get on a list or str)
validate_skill_data(data) ==
    IF ~supports_in(data) THEN "TypeError"
    ELSE IF ~\A key \in required_keys : py_in(key, data) THEN "False"
    ELSE IF data.t # "dict" THEN "AttributeError"
    ELSE validate_skill_md(data, data.m[K_skill_md])

\* the character U+0060 (grave accent), which a TLA+ string cannot hold
Tick == "tick"

\* the fence marker (three grave accents) and the json-tagged fence opener
Fence == <<Tick,Tick,Tick>>
JsonFence == <<Tick,Tick,Tick,"j","s","o","n">>

\* the characters str.strip() removes, among those of the texts
PyWhitespace == {" ", "\t", "\n", "\r"}

\* an end of the block taken at the first fence marker instead of the last
block_end_first(text) == Find(text, Fence)

\* lines 140 and 145: end = response_text.rfind of the fence marker
block_end(text) == RFind(text, Fence)

\* lines 137-149 with the json-tagged block started just after the three grave
\* accents, the tag left in the text
extract_json_text_tag_kept(text) ==
    IF Contains(text, JsonFence)
    THEN StripChars(Slice(text, Find(text, JsonFence) + 3, block_end(text)),
                    PyWhitespace)
    ELSE IF Contains(text, Fence)
    THEN StripChars(Slice(text, Find(text, Fence) + 3, block_end(text)),
                    PyWhitespace)
    ELSE StripChars(text, PyWhitespace)

\* lines 137-149 with the json-tagged block started after the last opener
\* instead of the first
extract_json_text_last_opener(text) ==
    IF Contains(text, JsonFence)
    THEN StripChars(Slice(text, RFind(text, JsonFence) + 7, block_end(text)),
                    PyWhitespace)
    ELSE IF Contains(text, Fence)
    THEN StripChars(Slice(text, Find(text, Fence) + 3, block_end(text)),
                    PyWhitespace)
    ELSE StripChars(text, PyWhitespace)

\* lines 137-149: the text handed to json.loads
extract_json_text(text) ==
    IF Contains(text, JsonFence)
    THEN StripChars(Slice(text, Find(text, JsonFence) + 7, block_end(text)),
                    PyWhitespace)
    ELSE IF Contains(text, Fence)
    THEN StripChars(Slice(text, Find(text, Fence) + 3, block_end(text)),
                    PyWhitespace)
    ELSE StripChars(text, PyWhitespace)

\* no document
NoDoc == [t |-> "none"]

\* what a call of _parse_response ends with: a returned document, a returned
\* None, or an exception leaving the method
Returned(doc) == [kind |-> "doc", doc |-> doc, error |-> "none"]
ReturnedNone == [kind |-> "None", doc |-> NoDoc, error |-> "none"]
Raised(error) == [kind |-> "raise", doc |-> NoDoc, error |-> error]

\* lines 154-159: the verdict of _validate_skill_data decides; its exceptions
\* are not JSONDecodeError and leave _parse_response
parse_validated(data, verdict) ==
    CASE verdict = "True" -> Returned(data)
      [] verdict = "False" -> ReturnedNone
      [] OTHER -> Raised(verdict)

\* lines 151-164: json.loads raising JSONDecodeError makes the method return None
parse_loaded(loaded) ==
    IF ~loaded.ok THEN ReturnedNone
    ELSE parse_validated(loaded.val, validate_skill_data(loaded.val))

\* _parse_response(response_text)
parse_response(text) == parse_loaded(json_loads(extract_json_text(text)))

(***************************************************************************)
(* The response texts _parse_response is called on: JSON payloads written  *)
(* out member by member, bare or inside fences and prose, and short texts  *)
(* put together from fence pieces.                                         *)
(***************************************************************************)

\* the texts of a list joined by ", "
RECURSIVE JoinTexts(_)
JoinTexts(texts) ==
    IF texts = <<>> THEN <<>>
    ELSE IF Len(texts) = 1 THEN Head(texts)
    ELSE Head(texts) \o <<",", " ">> \o JoinTexts(Tail(texts))

\* a JSON string, array and object as text; a member whose value text is
\* empty is left out of the object
StrText(chars) == <<"\"">> \o chars \o <<"\"">>
ArrText(elems) == <<"[">> \o JoinTexts(elems) \o <<"]">>
MemberText(member) == StrText(member[1]) \o <<":", " ">> \o member[2]
ObjText(members) ==
    LET kept == SelectSeq(members, LAMBDA member : member[2] # <<>>)
    IN  <<"{">> \o JoinTexts([i \in 1..Len(kept) |-> MemberText(kept[i])]) \o <<"}">>

Absent == <<>>

\* frontmatter values: complete, lacking a field, and values that are no mapping
FrontmatterTexts ==
    { ObjText(<< <<K_name, StrText(<<"x">>)>>, <<K_description, StrText(<<"d">>)>> >>),
      ObjText(<< <<K_name, <<"5">>>>, <<K_description, NullWord>> >>),
      ObjText(<< <<K_name, StrText(<<"x">>)>> >>),
      ObjText(<< <<K_description, StrText(<<"d">>)>> >>),
      ObjText(<<>>),
      ArrText(<<StrText(K_name), StrText(K_description)>>),
      ArrText(<<StrText(K_name)>>),
      StrText(K_name \o <<" ">> \o K_description),
      StrText(K_name),
      <<"5">>,
      NullWord }

\* content values: plain, and holding a fenced example
ContentTexts ==
    { StrText(<<"c">>), StrText(<<"a">> \o Fence \o <<"b">> \o Fence), Absent }

\* skill_md values
SkillMdTexts ==
    { ObjText(<< <<K_frontmatter, f>>, <<K_content, c>> >>) :
          f \in FrontmatterTexts \cup {Absent}, c \in ContentTexts }
      \cup { ArrText(<<StrText(K_frontmatter), StrText(K_content)>>), <<"5">>, Absent }

\* one {filename, content} entry, complete and lacking content
EntryText == ObjText(<< <<K_filename, StrText(<<"a",".","m","d">>)>>, <<K_content, StrText(<<"c">>)>> >>)
EntryNoContentText == ObjText(<< <<K_filename, StrText(<<"a",".","m","d">>)>> >>)

\* references and templates values
ListTexts ==
    { ArrText(<<>>), ArrText(<<EntryText>>), ArrText(<<EntryNoContentText>>),
      ArrText(<<<<"7">>>>), ObjText(<<>>), NullWord, Absent }

\* payloads that are JSON objects
ObjectPayloads ==
    { ObjText(<< <<K_skill_md, s>>, <<K_references, r>>, <<K_templates, t>> >>) :
          s \in SkillMdTexts, r \in ListTexts, t \in {ArrText(<<>>), <<"7">>, Absent} }

\* payloads that are no JSON object, and texts that are no JSON
OtherPayloads ==
    { ArrText(<<StrText(K_skill_md), StrText(K_references), StrText(K_templates)>>),
      ArrText(<<>>),
      StrText(K_skill_md \o K_references \o K_templates),
      StrText(K_skill_md),
      <<"5">>, <<"-","1","2">>, NullWord, TrueWord, FalseWord,
      <<"{">>, <<"{","}","}">>, <<"[","1",",","]">>, <<"0","1">>, <<"x">>,
      <<"{","\"","a","\"",":","1",",","\"","a","\"",":","2","}">> }

Payloads == ObjectPayloads \cup OtherPayloads

\* the ways a payload is put into a response text
Wrappings == {"bare", "padded", "json", "plain", "prose"}

Wrapped(w, payload) ==
    CASE w = "bare" -> payload
      [] w = "padded" -> <<" ", "\n">> \o payload \o <<"\n", " ">>
      [] w = "json" -> JsonFence \o <<"\n">> \o payload \o <<"\n">> \o Fence
      [] w = "plain" -> Fence \o <<"\n">> \o payload \o <<"\n">> \o Fence
      [] w = "prose" ->
            <<"o","k",":","\n">> \o JsonFence \o <<"\n">> \o payload
                \o <<"\n">> \o Fence \o <<"\n","d","o","n","e",".">>

\* the most pieces a pieced text is put together from
MaxPieces == 3

Pieces == { JsonFence, Fence, <<Tick>>, <<" ">>, <<"{","}">>, <<"j">> }

\* the pieces of a list, one after the other
RECURSIVE Flatten(_)
Flatten(ps) == IF ps = <<>> THEN <<>> ELSE Head(ps) \o Flatten(Tail(ps))

PiecedTexts ==
    UNION { { Flatten(ps) : ps \in [1..n -> Pieces] } : n \in 0..MaxPieces }

\* valid documents, with plain content and with content holding fenced examples
ValidPayloads ==
    { ObjText(<< <<K_skill_md,
                   ObjText(<< <<K_frontmatter,
                                ObjText(<< <<K_name, StrText(<<"x">>)>>,
                                           <<K_description, StrText(<<"d">>)>> >>)>>,
                              <<K_content, c>> >>)>>,
                 <<K_references, r>>,
                 <<K_templates, ArrText(<<>>)>> >>) :
          c \in { StrText(<<"c">>), StrText(<<"a">> \o Fence \o <<"b">> \o Fence),
                  StrText(JsonFence \o <<"{","}">> \o Fence) },
          r \in { ArrText(<<>>), ArrText(<<EntryText>>) } }

\* prose without a fence marker: none, words, and words with one or two grave accents
ProseBefore == { <<>>, <<"o","k",":">> \o <<"\n">>, <<"a", Tick>>, <<Tick, Tick>> }
ProseAfter == { <<>>, <<"\n">> \o <<"d","o","n","e",".">>, <<Tick, "x", Tick>>, <<"\n", Tick, Tick>> }

\* a payload in one json-tagged fence between prose
ProseWrapped(before, payload, after) ==
    before \o JsonFence \o <<"\n">> \o payload \o <<"\n">> \o Fence \o after

ProseTexts ==
    { ProseWrapped(before, payload, after) :
          before \in ProseBefore, payload \in ValidPayloads, after \in ProseAfter }

ParseTexts ==
    { Wrapped(w, payload) : w \in Wrappings, payload \in Payloads } \cup PiecedTexts
        \cup ProseTexts

ParseIdle ==
    /\ p_text = <<>>
    /\ p_pc = "idle"
    /\ p_candidate = <<>>
    /\ p_loaded = ScanFail
    /\ p_ret = ReturnedNone

ParseInit ==
    /\ p_text \in ParseTexts
    /\ p_pc = "call"
    /\ p_candidate = <<>>
    /\ p_loaded = ScanFail
    /\ p_ret = ReturnedNone

\* one call of _parse_response
ParseResponse ==
    /\ p_pc = "call"
    /\ p_candidate' = extract_json_text(p_text)
    /\ p_loaded' = json_loads(extract_json_text(p_text))
    /\ p_ret' = parse_response(p_text)
    /\ p_pc' = "ret"
    /\ UNCHANGED <<p_text, not_p_vars>>

(***************************************************************************)
(* BaseSkillGenerator.generate_skill and the backends' _call_ai_api.       *)
(* The same call is made in three runs that differ only in the progress    *)
(* callback they are given: none, one that returns, one that raises.       *)
(* What the runs share is fixed before they start: the backend, whether    *)
(* _prepare_prompt raises (a code sample without 'file', line 101), and    *)
(* what the provider does (it fails, or it delivers chunks of text).       *)
(***************************************************************************)

\* the progress callbacks, which name the runs
Sinks == {"none", "ok", "raises"}

\* the backends; Vertex AI serves Claude models and Gemini models differently
Backends ==
    {"Anthropic API", "Vertex AI Claude", "Vertex AI Gemini", "Google AI Studio",
     "OpenAI API"}

\* len(response_text) % 1000 == 0: the stride of the streaming progress reports
ProgressStride == 1000

\* what _call_ai_api ends with: a text, None, or an exception
SomeText(t) == [kind |-> "text", text |-> t]
NoText == [kind |-> "None", text |-> <<>>]
RaisedInBackend == [kind |-> "raise", text |-> <<>>]
NotCalled == [kind |-> "not called", text |-> <<>>]

\* an except clause that lets the exception through
except_reraises == RaisedInBackend

\* except Exception: ... return None (lines 235-239, 332-336, 377-381, 429-433)
except_returns_none == NoText

\* the streaming loops (lines 219-224, 294-299, 417-423): every chunk is added
\* to response_text; a callback is invoked when the length is a multiple of the
\* stride, and its exception is caught by the method's except clause.  The
\* OpenAI loop passes over chunks without content.
RECURSIVE stream_text(_, _, _, _)
stream_text(chunks, acc, sink, skip_empty) ==
    IF chunks = <<>> THEN SomeText(acc)
    ELSE IF skip_empty /\ Head(chunks) = <<>>
      THEN stream_text(Tail(chunks), acc, sink, skip_empty)
    ELSE IF sink = "raises" /\ Len(acc \o Head(chunks)) % ProgressStride = 0
      THEN except_returns_none
    ELSE stream_text(Tail(chunks), acc \o Head(chunks), sink, skip_empty)

\* ClaudeAPIGenerator._call_ai_api
claude_call_ai_api(provider, sink) ==
    IF provider.fails THEN except_returns_none
    ELSE stream_text(provider.chunks, <<>>, sink, FALSE)

\* the whole text of a response that is not streamed
whole_text(provider) == Flatten(provider.chunks)

\* VertexAIGenerator._call_ai_api: Claude models are streamed; for Gemini models
\* an empty response.text gives None
vertex_call_ai_api(is_claude, provider, sink) ==
    IF provider.fails THEN except_returns_none
    ELSE IF is_claude THEN stream_text(provider.chunks, <<>>, sink, FALSE)
    ELSE IF whole_text(provider) # <<>> THEN SomeText(whole_text(provider))
    ELSE NoText

\* GoogleAIStudioGenerator._call_ai_api: response.text is returned as it is
studio_call_ai_api(provider, sink) ==
    IF provider.fails THEN except_returns_none ELSE SomeText(whole_text(provider))

\* OpenAIGenerator._call_ai_api
openai_call_ai_api(provider, sink) ==
    IF provider.fails THEN except_returns_none
    ELSE stream_text(provider.chunks, <<>>, sink, TRUE)

\* self._call_ai_api(prompt, progress_callback) on the chosen backend
call_ai_api(backend, provider, sink) ==
    CASE backend = "Anthropic API" -> claude_call_ai_api(provider, sink)
      [] backend = "Vertex AI Claude" -> vertex_call_ai_api(TRUE, provider, sink)
      [] backend = "Vertex AI Gemini" -> vertex_call_ai_api(FALSE, provider, sink)
      [] backend = "Google AI Studio" -> studio_call_ai_api(provider, sink)
      [] backend = "OpenAI API" -> openai_call_ai_api(provider, sink)

\* no call of _prepare_prompt, _call_ai_api, _parse_response yet
NoCalls == [prompt |-> 0, api |-> 0, parse |-> 0]

\* the run r of generate_skill ends with ret
GenerateEnds(r, ret) ==
    /\ g_pc' = [g_pc EXCEPT ![r] = "ret"]
    /\ g_ret' = [g_ret EXCEPT ![r] = ret]

\* the run r of generate_skill goes on to the step named next
GenerateGoes(r, next) ==
    /\ g_pc' = [g_pc EXCEPT ![r] = next]
    /\ UNCHANGED g_ret

\* lines 55-56: the first progress report, outside the try: a raising callback
\* ends generate_skill with its exception
generate_enter ==
    \E r \in Sinks :
        /\ g_pc[r] = "start"
        /\ IF r = "raises" THEN GenerateEnds(r, Raised("CallbackError"))
           ELSE GenerateGoes(r, "prompt")
        /\ UNCHANGED <<g_backend, g_prompt_fault, g_provider, g_resp, g_calls, not_g_vars>>

\* lines 58-64: _prepare_prompt, outside the try
generate_prepare_prompt ==
    \E r \in Sinks :
        /\ g_pc[r] = "prompt"
        /\ g_calls' = [g_calls EXCEPT ![r].prompt = @ + 1]
        /\ IF g_prompt_fault THEN GenerateEnds(r, Raised("KeyError"))
           ELSE GenerateGoes(r, "api")
        /\ UNCHANGED <<g_backend, g_prompt_fault, g_provider, g_resp, not_g_vars>>

\* lines 73-74 without the test of the answer: whatever the backend gave is
\* handed to the parser
generate_after_api_untested(r, resp) ==
    /\ g_resp' = [g_resp EXCEPT ![r] = resp]
    /\ GenerateGoes(r, "parse")

\* lines 73-74 and 84-86: what generate_skill does with the backend's answer
generate_after_api(r, resp) ==
    /\ g_resp' = [g_resp EXCEPT ![r] = resp]
    /\ IF resp.kind # "text" \/ resp.text = <<>> THEN GenerateEnds(r, ReturnedNone)
       ELSE GenerateGoes(r, "parse")

\* lines 66-74: the progress report and the call of the backend, inside the try
generate_call_api ==
    \E r \in Sinks :
        /\ g_pc[r] = "api"
        /\ IF r = "raises"
             THEN GenerateEnds(r, ReturnedNone) /\ UNCHANGED <<g_resp, g_calls>>
             ELSE /\ g_calls' = [g_calls EXCEPT ![r].api = @ + 1]
                  /\ generate_after_api(r, call_ai_api(g_backend, g_provider, r))
        /\ UNCHANGED <<g_backend, g_prompt_fault, g_provider, not_g_vars>>

\* lines 80-86: the result of _parse_response is returned; an exception it
\* raises is caught and gives None
generate_after_parse(r, parsed) ==
    IF parsed.kind = "doc" THEN GenerateEnds(r, parsed)
    ELSE GenerateEnds(r, ReturnedNone)

\* lines 76-82: the progress report and the parsing, inside the try
generate_parse ==
    \E r \in Sinks :
        /\ g_pc[r] = "parse"
        /\ IF r = "raises"
             THEN GenerateEnds(r, ReturnedNone) /\ UNCHANGED g_calls
             ELSE /\ g_calls' = [g_calls EXCEPT ![r].parse = @ + 1]
                  /\ generate_after_parse(r, parse_response(g_resp[r].text))
        /\ UNCHANGED <<g_backend, g_prompt_fault, g_provider, g_resp, not_g_vars>>

\* generate_skill(...)
generate_skill ==
    \/ generate_enter
    \/ generate_prepare_prompt
    \/ generate_call_api
    \/ generate_parse

\* the example payload, bare and as a json-tagged block
ExamplePayload ==
    ObjText(<< <<K_skill_md,
                 ObjText(<< <<K_frontmatter,
                              ObjText(<< <<K_name, StrText(<<"x">>)>>,
                                         <<K_description, StrText(<<"d">>)>> >>)>>,
                            <<K_content, StrText(<<"c">>)>> >>)>>,
               <<K_references, ArrText(<<>>)>>,
               <<K_templates, ArrText(<<>>)>> >>)

\* n spaces
Spaces(n) == [i \in 1..n |-> " "]

\* the chunk lists a provider delivers: nothing, an empty chunk, the example
\* payload in one chunk or after padding that fills a stride, the payload in a
\* fenced block cut in two, a number, and a text that is no JSON
ChunkLists ==
    { <<>>,
      << <<>> >>,
      << ExamplePayload >>,
      << Spaces(ProgressStride), ExamplePayload >>,
      << <<>>, ExamplePayload >>,
      << JsonFence \o <<"\n">>, ExamplePayload \o <<"\n">> \o Fence >>,
      << <<"5">> >>,
      << <<"o","o","p","s">> >> }

Providers == [fails : BOOLEAN, chunks : ChunkLists]

GenerateIdle ==
    /\ g_backend = "none"
    /\ g_prompt_fault = FALSE
    /\ g_provider = [fails |-> FALSE, chunks |-> <<>>]
    /\ g_pc = [r \in Sinks |-> "idle"]
    /\ g_resp = [r \in Sinks |-> NotCalled]
    /\ g_ret = [r \in Sinks |-> ReturnedNone]
    /\ g_calls = [r \in Sinks |-> NoCalls]

GenerateInit ==
    /\ g_backend \in Backends
    /\ g_prompt_fault \in BOOLEAN
    /\ g_provider \in Providers
    /\ g_pc = [r \in Sinks |-> "start"]
    /\ g_resp = [r \in Sinks |-> NotCalled]
    /\ g_ret = [r \in Sinks |-> ReturnedNone]
    /\ g_calls = [r \in Sinks |-> NoCalls]

(***************************************************************************)
(* The generator factory: create_generator, ai_generator.py lines 436-489, *)
(* and the constructors of the four generator classes                      *)
(***************************************************************************)

\* the authentication methods of the sidebar, and two that are none of the four
AuthMethods ==
    {"Vertex AI", "Google AI Studio", "Anthropic API", "OpenAI API",
     "vertex ai", "Claude API"}

DefaultLocation == <<"u","s","-","c","e","n","t","r","a","l","1">>
DefaultVertexModel ==
    <<"c","l","a","u","d","e","-","s","o","n","n","e","t","-","4","-","5",
    "@","2","0","2","5","0","9","2","9">>
DefaultStudioModel ==
    <<"g","e","m","i","n","i","-","2",".","5","-","f","l","a","s",
    "h">>
DefaultClaudeModel ==
    <<"c","l","a","u","d","e","-","3","-","5","-","s","o","n","n","e","t",
    "-","2","0","2","4","1","0","2","2">>
DefaultOpenAIModel == <<"g","p","t","-","4","o","-","m","i","n","i">>
ClaudeWord == <<"c","l","a","u","d","e">>

\* kwargs.get(key) and kwargs.get(key, default)
kwargs_get(kwargs, key, default) ==
    IF key \in DOMAIN kwargs THEN kwargs[key] ELSE default

\* not value, for a value that is None or a string
py_not(value) == value.t = "null" \/ (value.t = "str" /\ value.s = <<>>)

\* how a call of create_generator ends
CreateRaised(error, message) ==
    [kind |-> "raise", error |-> error, message |-> message, generator |-> NoDoc]
CreateReturned(generator) ==
    [kind |-> "generator", error |-> "none", message |-> <<>>, generator |-> generator]
CreatePending ==
    [kind |-> "pending", error |-> "none", message |-> <<>>, generator |-> NoDoc]

\* the constructor to call and its arguments
Construction(class, credential, location, model) ==
    [class |-> class, credential |-> credential, location |-> location, model |-> model]

\* raise ValueError(...) at lines 458, 467, 476, 485, 489
create_raises(message) ==
    /\ c_pc' = "ret"
    /\ c_ret' = CreateRaised("ValueError", message)
    /\ UNCHANGED c_built

\* return SomeGenerator(...): the constructor is entered
create_constructs(construction) ==
    /\ c_pc' = "construct"
    /\ c_built' = Append(c_built, construction)
    /\ UNCHANGED c_ret

\* lines 457-460: only the project is tested
vertex_branch(project_id, location, model) ==
    IF py_not(project_id)
      THEN create_raises(<<"Project ID required for Vertex AI">>)
      ELSE create_constructs(Construction("VertexAIGenerator", project_id, location, model))

\* lines 466-469, 475-478, 484-487: the key is tested, then the class is built
api_key_branch(class, what, api_key, model) ==
    IF py_not(api_key)
      THEN create_raises(<<"API key required for ", what>>)
      ELSE create_constructs(Construction(class, api_key, JNull, model))

\* create_generator(auth_method, **kwargs) up to the call of a constructor
create_generator ==
    /\ c_pc = "start"
    /\ CASE c_auth_method = "Vertex AI" ->
              vertex_branch(kwargs_get(c_kwargs, "project_id", JNull),
                            kwargs_get(c_kwargs, "location", JStr(DefaultLocation)),
                            kwargs_get(c_kwargs, "model", JStr(DefaultVertexModel)))
         [] c_auth_method = "Google AI Studio" ->
              api_key_branch("GoogleAIStudioGenerator", c_auth_method,
                             kwargs_get(c_kwargs, "api_key", JNull),
                             kwargs_get(c_kwargs, "model", JStr(DefaultStudioModel)))
         [] c_auth_method = "Anthropic API" ->
              api_key_branch("ClaudeAPIGenerator", c_auth_method,
                             kwargs_get(c_kwargs, "api_key", JNull),
                             kwargs_get(c_kwargs, "model", JStr(DefaultClaudeModel)))
         [] c_auth_method = "OpenAI API" ->
              api_key_branch("OpenAIGenerator", c_auth_method,
                             kwargs_get(c_kwargs, "api_key", JNull),
                             kwargs_get(c_kwargs, "model", JStr(DefaultOpenAIModel)))
         [] OTHER ->
              create_raises(<<"Unknown authentication method: ", c_auth_method>>)
    /\ UNCHANGED <<c_auth_method, c_kwargs, c_sdk_fails, not_c_vars>>

\* VertexAIGenerator.__init__, line 250: "claude" in model.lower()
is_claude(model) == Contains(Lower(model.s), ClaudeWord)

\* the generator a constructor leaves
Generator(construction) ==
    [class |-> construction.class,
     model |-> construction.model,
     is_claude |-> IF construction.class = "VertexAIGenerator"
                     THEN is_claude(construction.model) ELSE FALSE]

\* the __init__ of the class chosen (lines 198-202, 245-274, 342-353, 387-396):
\* for Vertex AI a model that is None has no lower(); an exception of the
\* client library leaves the constructor, and so create_generator, as it is
generator_init ==
    /\ c_pc = "construct"
    /\ c_pc' = "ret"
    /\ LET construction == c_built[Len(c_built)]
       IN  c_ret' =
             IF construction.class = "VertexAIGenerator" /\ construction.model.t = "null"
               THEN CreateRaised("AttributeError", <<>>)
             ELSE IF c_sdk_fails THEN CreateRaised("SdkError", <<>>)
             ELSE CreateReturned(Generator(construction))
    /\ UNCHANGED <<c_auth_method, c_kwargs, c_sdk_fails, c_built, not_c_vars>>

\* the keyword arguments: each of the four may be left out, None, empty or given
KwargNames == {"project_id", "location", "api_key", "model"}
KwargValues(key) ==
    IF key = "model"
      THEN {JNull, JStr(<<"C","l","a","u","d","e","-","4">>), JStr(<<"g","e","m","i","n","i">>)}
      ELSE {JNull, JStr(<<>>), JStr(<<"x","y">>)}
KwargSets ==
    UNION {{kw \in [keys -> UNION {KwargValues(k) : k \in KwargNames}] :
               \A k \in keys : kw[k] \in KwargValues(k)} : keys \in SUBSET KwargNames}

CreateIdle ==
    /\ c_auth_method = "none"
    /\ c_kwargs = <<>>
    /\ c_sdk_fails = FALSE
    /\ c_pc = "idle"
    /\ c_built = <<>>
    /\ c_ret = CreatePending

CreateInit ==
    /\ c_auth_method \in AuthMethods
    /\ c_kwargs \in KwargSets
    /\ c_sdk_fails \in BOOLEAN
    /\ c_pc = "start"
    /\ c_built = <<>>
    /\ c_ret = CreatePending

(***************************************************************************)
(* The skill builder: SkillBuilder.build_skill, skill_builder.py lines     *)
(* 18-107, on a document _parse_response returned                          *)
(***************************************************************************)

\* value[key] for a string key: the item, or the exception
ItemOk(val) == [ok |-> TRUE, val |-> val, error |-> "none"]
ItemFails(error) == [ok |-> FALSE, val |-> JNull, error |-> error]
py_getitem(value, key) ==
    IF value.t # "dict" THEN ItemFails("TypeError")
    ELSE IF key \notin DOMAIN value.m THEN ItemFails("KeyError")
    ELSE ItemOk(value.m[key])

\* how a call of build_skill ends: the path of the skill directory, or an exception
BuildReturned == [kind |-> "path", error |-> "none"]
BuildRaised(error) == [kind |-> "raise", error |-> error]
BuildPending == [kind |-> "pending", error |-> "none"]

\* the filesystem operations of one call are counted in their order (mkdir of
\* the skill directory, open of SKILL.md, mkdir of references, one open per
\* reference, mkdir of assets and of templates, one open per template); the one numbered
\* fault, if any, raises OSError
Written(ops) == [error |-> "none", ops |-> ops]
WriteFails(error, ops) == [error |-> error, ops |-> ops]

\* lines 87-93 and 101-107 for one element: the two lookups, the path join,
\* open, write; "" as file name opens the directory itself
write_entry(entry, ops, fault) ==
    IF ~py_getitem(entry, K_filename).ok
      THEN WriteFails(py_getitem(entry, K_filename).error, ops)
    ELSE IF ~py_getitem(entry, K_content).ok
      THEN WriteFails(py_getitem(entry, K_content).error, ops)
    ELSE IF entry.m[K_filename].t # "str" THEN WriteFails("TypeError", ops)
    ELSE IF fault = ops + 1 \/ entry.m[K_filename].s = <<>>
      THEN WriteFails("OSError", ops + 1)
    ELSE IF entry.m[K_content].t # "str" THEN WriteFails("TypeError", ops + 1)
    ELSE Written(ops + 1)

\* the loops at lines 86-93 and 100-107
RECURSIVE write_entries(_, _, _)
write_entries(entries, ops, fault) ==
    IF entries = <<>> THEN Written(ops)
    ELSE IF write_entry(Head(entries), ops, fault).error # "none"
      THEN write_entry(Head(entries), ops, fault)
    ELSE write_entries(Tail(entries), ops + 1, fault)

\* _create_references and _create_templates: mkdir, then the loop; neither is
\* called for an empty list (lines 46 and 52).  references is one directory
\* to make, assets/templates are two (line 98, parents=True)
create_files(entries, mkdirs, ops, fault) ==
    IF entries = <<>> THEN Written(ops)
    ELSE IF fault \in (ops + 1)..(ops + mkdirs) THEN WriteFails("OSError", fault)
    ELSE write_entries(entries, ops + mkdirs, fault)

\* lines 51-64: the templates, after the references were written
build_templates(skill_data, references_done, fault) ==
    IF references_done.error # "none" THEN BuildRaised(references_done.error)
    ELSE IF create_files(skill_data.m[K_templates].items, 2, references_done.ops, fault).error # "none"
      THEN BuildRaised(create_files(skill_data.m[K_templates].items, 2,
                                    references_done.ops, fault).error)
    ELSE BuildReturned

\* lines 33-49: the name, the skill directory, SKILL.md, the references
build_named(skill_data, name, fault) ==
    IF ~name.ok THEN BuildRaised(name.error)
    ELSE IF name.val.t # "str" THEN BuildRaised("TypeError")
    ELSE IF fault \in {1, 2} THEN BuildRaised("OSError")
    ELSE build_templates(skill_data,
                         create_files(skill_data.m[K_references].items, 1, 2, fault), fault)

\* build_skill(skill_data, progress_callback): the first progress report is at
\* lines 29-30, before anything else
build_skill(skill_data, fault, sink) ==
    IF sink = "raises" THEN BuildRaised("CallbackError")
    ELSE build_named(skill_data,
                     py_getitem(skill_data.m[K_skill_md].m[K_frontmatter], K_name), fault)

\* the most filesystem operations of one call, for the documents built here
MaxFsOps == 9

\* elements of references and templates
GoodEntry ==
    ObjText(<< <<K_filename, StrText(<<"a",".","m","d">>)>>, <<K_content, StrText(<<"c">>)>> >>)
BuildEntryTexts ==
    { GoodEntry,
      ObjText(<< <<K_filename, StrText(<<"a",".","m","d">>)>> >>),
      ObjText(<< <<K_content, StrText(<<"c">>)>> >>),
      ObjText(<< <<K_filename, <<"5">>>>, <<K_content, StrText(<<"c">>)>> >>),
      ObjText(<< <<K_filename, StrText(<<"a",".","m","d">>)>>, <<K_content, <<"5">>>> >>),
      ObjText(<< <<K_filename, StrText(<<>>)>>, <<K_content, StrText(<<"c">>)>> >>),
      StrText(K_filename),
      <<"7">> }
BuildListTexts ==
    {ArrText(<<>>)} \cup {ArrText(<<e>>) : e \in BuildEntryTexts}
        \cup {ArrText(<<GoodEntry, e>>) : e \in BuildEntryTexts}

\* frontmatter values in which 'name' and 'description' are found
BuildFrontmatterTexts ==
    { ObjText(<< <<K_name, StrText(<<"x">>)>>, <<K_description, StrText(<<"d">>)>> >>),
      ObjText(<< <<K_name, <<"5">>>>, <<K_description, NullWord>> >>),
      ArrText(<<StrText(K_name), StrText(K_description)>>),
      StrText(K_name \o <<" ">> \o K_description) }

\* the responses: documents with every combination of the above, and two
\* payloads _parse_response turns down
BuildTexts ==
    { ObjText(<< <<K_skill_md, ObjText(<< <<K_frontmatter, f>>, <<K_content, StrText(<<"c">>)>> >>)>>,
                 <<K_references, r>>, <<K_templates, t>> >>) :
          f \in BuildFrontmatterTexts, r \in BuildListTexts, t \in BuildListTexts }
      \cup { ObjText(<< <<K_skill_md, <<"5">>>>, <<K_references, ArrText(<<>>)>>,
                        <<K_templates, ArrText(<<>>)>> >>),
             <<"x">> }

BuildIdle ==
    /\ b_fs_fault = 0
    /\ b_pc = "idle"
    /\ b_ret = [r \in Sinks |-> BuildPending]

BuildInit ==
    /\ b_fs_fault \in 0..MaxFsOps
    /\ b_pc = "call"
    /\ b_ret = [r \in Sinks |-> BuildPending]
    /\ p_text \in BuildTexts
    /\ p_pc = "call"
    /\ p_candidate = <<>>
    /\ p_loaded = ScanFail
    /\ p_ret = ReturnedNone

\* build_skill called with the document _parse_response returned, once with
\* each kind of callback
BuildSkill ==
    /\ p_pc = "ret" /\ p_ret.kind = "doc"
    /\ b_pc = "call"
    /\ b_pc' = "ret"
    /\ b_ret' = [r \in Sinks |-> build_skill(p_ret.doc, b_fs_fault, r)]
    /\ UNCHANGED <<b_fs_fault, not_b_vars>>

(***************************************************************************)
(* Specification Spec: one run of the workflow, or one direct call of      *)
(* clone_repository, on a locator and a scratch root the environment       *)
(* chose.                                                                  *)
(***************************************************************************)

HttpsGitHub == <<"h","t","t","p","s",":","/","/">> \o GitHubHost

\* the locators of the runs
WorkflowUrls ==
    { HttpsGitHub \o <<"/","o","/","r">>,
      HttpsGitHub \o <<"/","o","/","r",".","x">>,
      <<"h","t","t","p","s",":","/","/">> \o WwwGitHubHost \o <<"/","o","/","r",".","g","i","t">>,
      <<"h","t","t","p",":","/","/">> \o GitHubHost \o <<"/","o","/","r">>,
      <<"h","t","t","p","s",":","/","/","e","v","i","l",".","c","o","m","/","o","/","r">>,
      HttpsGitHub \o <<"/","o","w"," ","n","e","r","/","r","e","p","o">>,
      HttpsGitHub \o <<"/","o","/",".",".">>,
      HttpsGitHub \o <<"/","o">>,
      <<>> }

\* the scratch name of https://github.com/o/r
NameOR == <<"o","_","r">>

\* what the environment may hold at TEMP_DIR/o_r: nothing special, or a
\* symbolic link to a directory below TEMP_DIR, to a sibling of TEMP_DIR whose
\* name starts like TEMP_DIR's, or to a directory elsewhere
Links ==
    { NoLink,
      [name |-> NameOR, target |-> TEMP_DIR \o << <<"k","e","p","t">> >>],
      [name |-> NameOR,
       target |-> << <<"d","a","t","a">>, <<"t","e","m","p","2">>, <<"x">> >>],
      [name |-> NameOR, target |-> << <<"h","o","m","e">>, <<"x">> >>] }

\* the directories that may exist before the run: an earlier clone of o/r
\* (wherever TEMP_DIR/o_r resolves to) and an unrelated directory
DirsBefore(lnk) ==
    { {}, {Resolve(TEMP_DIR \o <<NameOR>>, lnk)},
      {Resolve(TEMP_DIR \o <<NameOR>>, lnk), << <<"h","o","m","e">>, <<"y">> >>} }

\* a row and a result left by an earlier run
EarlierUrl == <<"h","t","t","p","s",":","/","/","g","i","t","h","u","b",".","c","o","m","/","e","/","e">>

HistoryIdle ==
    /\ validation = NoValidation
    /\ packaging = <<>>
    /\ history = <<>>
    /\ stored = NoResult
    /\ rerun = FALSE

HistoryInit ==
    /\ validation = NoValidation
    /\ packaging = <<>>
    /\ history \in {<<>>, <<HistoryRow(EarlierUrl, "success", "none")>>}
    /\ stored \in {NoResult, StoredResult(EarlierUrl)}
    /\ rerun = FALSE

WorkflowIdle ==
    /\ mode = "idle"
    /\ repo_url = <<>>
    /\ pc = "idle"
    /\ outcome = "idle"
    /\ cpc = "idle"
    /\ clone_path = <<>>
    /\ clone_ret = "none"
    /\ clone_why = "none"
    /\ total_size = 0
    /\ link = NoLink
    /\ dirs = {}
    /\ mutations = {}
    /\ cloneCalls = 0
    /\ gitCalls = 0
    /\ cleanupCalls = 0

WorkflowInit ==
    /\ mode \in {"workflow", "direct"}
    /\ repo_url \in WorkflowUrls
    /\ pc = IF mode = "workflow" THEN "w_construct" ELSE "d_call"
    /\ outcome = "running"
    /\ cpc = "idle"
    /\ clone_path = <<>>
    /\ clone_ret = "none"
    /\ clone_why = "none"
    /\ total_size = 0
    /\ link \in Links
    /\ dirs \in DirsBefore(link)
    /\ mutations = {}
    /\ cloneCalls = 0
    /\ gitCalls = 0
    /\ cleanupCalls = 0

(***************************************************************************)
(* The prompt: BaseSkillGenerator._prepare_prompt, ai_generator.py lines   *)
(* 88-126.  The EvidenceSet (analysis) and the metadata are mappings from  *)
(* the keys they hold; the content of a file is told by its length; a slot *)
(* of the prompt is told by what is substituted for it.                    *)
(***************************************************************************)

\* the limits written in _prepare_prompt
MaxPromptSamples == 3
MaxPromptEntries == 20
MaxPromptReadme == 8000

\* a literal of the source, the first chars_kept characters of a text of the
\* evidence, str() of a value, ', '.join of the languages (a list made of a
\* set, in no fixed order), and the lines of the two loops
Placeholder(literal) == [kind |-> "literal", literal |-> literal]
PrefixOf(what, chars_kept) == [kind |-> "prefix", of |-> what, len |-> chars_kept]
StrOf(value) == [kind |-> "str", value |-> value]
Joined(items) == [kind |-> "joined", items |-> items]
Lines(items) == [kind |-> "lines", items |-> items]

\* analysis.get(key, default)
analysis_get(analysis, key, default) ==
    IF key \in DOMAIN analysis THEN analysis[key] ELSE default

\* the keys a code sample is read by (lines 101-102); content stands for its length
SampleKeys == {"file", "language", "content_len"}

\* lines 98-104: the first three samples, numbered from 1, or the literal
code_samples_text(analysis) ==
    IF analysis_get(analysis, "code_samples", <<>>) = <<>>
      THEN [ok |-> TRUE, text |-> Placeholder("No code samples available")]
    ELSE IF \E i \in 1..Min(MaxPromptSamples, Len(analysis["code_samples"])) :
               ~(SampleKeys \subseteq DOMAIN analysis["code_samples"][i])
      THEN [ok |-> FALSE, text |-> Placeholder("KeyError")]
    ELSE [ok |-> TRUE,
          text |-> Lines([i \in 1..Min(MaxPromptSamples, Len(analysis["code_samples"])) |->
                            [index |-> i, sample |-> analysis["code_samples"][i]]])]

\* lines 107-112: the first twenty entries in their order, or the literal
file_structure_text(analysis) ==
    IF analysis_get(analysis, "file_structure", <<>>) = <<>>
      THEN Placeholder("File structure not available")
    ELSE Lines(Take(analysis["file_structure"], MaxPromptEntries))

\* line 119: ', '.join(analysis.get('languages', ['Unknown']))
languages_text(analysis) == Joined(analysis_get(analysis, "languages", {"Unknown"}))

\* line 120: repo_metadata.get('description', 'No description available'), as
\* str.format writes it
repo_description_text(repo_metadata) ==
    IF "description" \in DOMAIN repo_metadata THEN StrOf(repo_metadata["description"])
    ELSE Placeholder("No description available")

\* line 121 without the slice
readme_content_whole(analysis) ==
    IF "readme_content" \in DOMAIN analysis
      THEN PrefixOf("readme_content", analysis["readme_content"])
    ELSE Placeholder("README not found")

\* line 121: analysis.get('readme_content', 'README not found')[:8000]
readme_content_text(analysis) ==
    IF "readme_content" \in DOMAIN analysis
      THEN PrefixOf("readme_content", Min(analysis["readme_content"], MaxPromptReadme))
    ELSE Placeholder("README not found")

\* how _prepare_prompt ends
PromptRaised(error) == [kind |-> "raise", error |-> error]
PromptReturned(template, slots) == [kind |-> "prompt", template |-> template, slots |-> slots]
NoPrompt == [kind |-> "none"]

\* lines 115-124: the slots given to prompt_template.format
prompt_slots(repo_metadata, analysis, samples_text) ==
    [repo_type |-> IF "repo_type" \in DOMAIN analysis THEN StrOf(analysis["repo_type"])
                   ELSE Placeholder("unknown"),
     languages |-> languages_text(analysis),
     repo_description |-> repo_description_text(repo_metadata),
     readme_content |-> readme_content_text(analysis),
     file_structure |-> file_structure_text(analysis),
     code_samples |-> samples_text]

\* _prepare_prompt(repo_name, repo_url, repo_metadata, analysis); the template
\* is the file's text or, when it could not be read, "" (lines 22-27)
prepare_prompt(template, repo_metadata, analysis) ==
    IF ~code_samples_text(analysis).ok THEN PromptRaised("KeyError")
    ELSE PromptReturned(template,
                        prompt_slots(repo_metadata, analysis, code_samples_text(analysis).text))

(***************************************************************************)
(* The analysis: RepoAnalyzer.analyze_repository, repo_analyzer.py lines   *)
(* 192-366, over the files of a clone.  A file is [rel, size, readable];   *)
(* a directory exists by the files below it.                               *)
(***************************************************************************)

\* lines 213-214
readme_patterns == <<<<"R","E","A","D","M","E",".","m","d">>, <<"R","E","A","D","M","E",".","r","s","t">>, <<"R","E","A","D","M","E",".","t","x","t">>, <<"R","E","A","D","M","E">>>>
readme_max_size == 1024 * 1024

\* the names at the top of the tree, in the order iterdir gives them
RECURSIVE top_names(_, _)
top_names(tree, seen) ==
    IF tree = <<>> THEN seen
    ELSE IF \E i \in 1..Len(seen) : seen[i] = Head(tree).rel[1]
      THEN top_names(Tail(tree), seen)
    ELSE top_names(Tail(tree), Append(seen, Head(tree).rel[1]))

\* (repo_path / name).exists()
path_exists(tree, name) == \E i \in 1..Len(tree) : tree[i].rel[1] = name

\* whether the top-level name is a directory
top_is_dir(tree, name) == \E i \in 1..Len(tree) : tree[i].rel[1] = name /\ Len(tree[i].rel) > 1

\* the file at the top of the tree under the name
top_file(tree, name) == tree[CHOOSE i \in 1..Len(tree) : tree[i].rel = <<name>>]

\* how a step of the analysis ends
StepReturned(value) == [ok |-> TRUE, value |-> value]
StepRaised == [ok |-> FALSE, value |-> "OSError"]

\* lines 216-230: the loop over the patterns from the k-th on.  exists() is
\* called outside the try; stat and read are inside it, and after a fault or
\* an over-long file the next pattern is tried.  A directory under the name
\* cannot be opened.
RECURSIVE extract_readme(_, _, _)
extract_readme(tree, fault, k) ==
    IF k > Len(readme_patterns) THEN StepReturned(0)
    ELSE IF fault = "readme exists" THEN StepRaised
    ELSE IF ~path_exists(tree, readme_patterns[k]) THEN extract_readme(tree, fault, k + 1)
    ELSE IF fault = "readme stat" THEN extract_readme(tree, "none", k + 1)
    ELSE IF top_is_dir(tree, readme_patterns[k]) THEN extract_readme(tree, fault, k + 1)
    ELSE IF top_file(tree, readme_patterns[k]).size > readme_max_size
      THEN extract_readme(tree, fault, k + 1)
    ELSE IF ~top_file(tree, readme_patterns[k]).readable
      THEN extract_readme(tree, fault, k + 1)
    ELSE StepReturned(top_file(tree, readme_patterns[k]).size)

\* Path.suffix: from the last dot on, when that dot is neither first nor last
path_suffix(name) ==
    IF RFind(name, <<".">>) > 0 /\ RFind(name, <<".">>) < Len(name) - 1
      THEN Slice(name, RFind(name, <<".">>), Len(name))
    ELSE <<>>

\* lines 241-244: the entry of one item
structure_entry(tree, name) ==
    [name |-> name,
     type |-> IF top_is_dir(tree, name) THEN <<"d","i","r","e","c","t","o","r","y">>
              ELSE IF path_suffix(name) # <<>> THEN path_suffix(name)
              ELSE <<"f","i","l","e">>]

\* lines 232-249: the entries of the visible top-level items; a fault of
\* iterdir is caught and leaves the mapping empty
get_file_structure(tree, fault) ==
    IF fault = "structure" THEN <<>>
    ELSE LET visible == SelectSeq(top_names(tree, <<>>), LAMBDA name : ~StartsWith(name, <<".">>))
         IN  [i \in 1..Len(visible) |-> structure_entry(tree, visible[i])]

\* repo_path.glob('*' + suffix): a top-level name ending in the suffix
glob_top(tree, suffix) == \E i \in 1..Len(tree) : EndsWith(tree[i].rel[1], suffix)

\* lines 296-322: no fault is caught here
detect_repo_type(repo_path, tree, fault) ==
    IF fault = "repo_type" THEN StepRaised
    ELSE IF path_exists(tree, <<"s","e","t","u","p",".","p","y">>) \/ path_exists(tree, <<"p","y","p","r","o","j","e","c","t",".","t","o","m","l">>)
      THEN StepReturned("python_package")
    ELSE IF path_exists(tree, <<"p","a","c","k","a","g","e",".","j","s","o","n">>) THEN StepReturned("nodejs_package")
    ELSE IF path_exists(tree, <<"C","a","r","g","o",".","t","o","m","l">>) THEN StepReturned("rust_package")
    ELSE IF path_exists(tree, <<"g","o",".","m","o","d">>) THEN StepReturned("go_module")
    ELSE IF glob_top(tree, <<".","f","r","a","m","e","w","o","r","k">>) \/ glob_top(tree, <<".","x","c","o","d","e","p","r","o","j">>)
      THEN StepReturned("ios_framework")
    ELSE IF path_exists(tree, <<"d","o","c","s">>) /\ path_exists(tree, <<"m","k","d","o","c","s",".","y","m","l">>)
      THEN StepReturned("documentation")
    ELSE IF Contains(Lower(repo_path[Len(repo_path)]), <<"e","x","a","m","p","l","e">>)
              \/ Contains(Lower(repo_path[Len(repo_path)]), <<"s","a","m","p","l","e">>)
      THEN StepReturned("examples")
    ELSE StepReturned("library")

\* lines 326-337, in the order of the mapping
language_extensions ==
    << <<<<".","p","y">>, "Python">>, <<<<".","j","s">>, "JavaScript">>, <<<<".","t","s">>, "TypeScript">>,
       <<<<".","j","a","v","a">>, "Java">>, <<<<".","g","o">>, "Go">>, <<<<".","r","s">>, "Rust">>, <<<<".","c","p","p">>, "C++">>,
       <<<<".","c">>, "C">>, <<<<".","r","b">>, "Ruby">>, <<<<".","p","h","p">>, "PHP">> >>

\* the extension at which rglob raises when the fault is in this step
LanguageFaultAt == 2

\* lines 339-349: the languages whose extension some path ends in; a fault is
\* caught and leaves the languages found before it
detect_languages(tree, fault) ==
    { language_extensions[k][2] :
        k \in { j \in 1..Len(language_extensions) :
                  /\ fault = "languages" => j < LanguageFaultAt
                  /\ \E i \in 1..Len(tree) : \E d \in 1..Len(tree[i].rel) :
                        EndsWith(tree[i].rel[d], language_extensions[j][1]) } }

\* lines 351-359: no fault is caught here
doc_indicators == <<<<"d","o","c","s">>, <<"d","o","c","u","m","e","n","t","a","t","i","o","n">>, <<"w","i","k","i">>, <<"A","P","I",".","m","d">>, <<"U","S","A","G","E",".","m","d">>>>
has_documentation(tree, fault) ==
    IF fault = "documentation" THEN StepRaised
    ELSE StepReturned(\E k \in 1..Len(doc_indicators) : path_exists(tree, doc_indicators[k]))

\* lines 361-366
count_files(tree, fault) == IF fault = "count" THEN 0 ELSE Len(tree)

\* how analyze_repository ends
Analyzed(analysis) == [kind |-> "analysis", analysis |-> analysis]
AnalysisRaised == [kind |-> "raise", analysis |-> <<>>]
NoAnalysis == [kind |-> "none", analysis |-> <<>>]

\* lines 199-209, the three steps that can raise having been made
analysis_of(repo_path, tree, fault, readme, repo_type, documented) ==
    IF ~readme.ok \/ ~repo_type.ok \/ ~documented.ok THEN AnalysisRaised
    ELSE Analyzed([readme_content |-> readme.value,
                   file_structure |-> get_file_structure(tree, fault),
                   code_samples |-> extract_code_samples(repo_path, tree,
                                        IF fault = "samples" THEN 1 ELSE 0),
                   repo_type |-> repo_type.value,
                   languages |-> detect_languages(tree, fault),
                   has_documentation |-> documented.value,
                   total_files |-> count_files(tree, fault)])

\* analyze_repository(repo_path)
analyze_repository(repo_path, tree, fault) ==
    analysis_of(repo_path, tree, fault, extract_readme(tree, fault, 1),
                detect_repo_type(repo_path, tree, fault), has_documentation(tree, fault))

(***************************************************************************)
(* The clones analysed and the evidence given to _prepare_prompt           *)
(***************************************************************************)

AFile(rel, size) == [rel |-> rel, size |-> size, readable |-> TRUE]

\* the forms of README.md: absent, empty, short, of the prompt's limit, one
\* over it, over the size limit of line 220, unreadable
ReadmeForms ==
    { <<>>,
      << AFile(<<<<"R","E","A","D","M","E",".","m","d">>>>, 0) >>,
      << AFile(<<<<"R","E","A","D","M","E",".","m","d">>>>, 5) >>,
      << AFile(<<<<"R","E","A","D","M","E",".","m","d">>>>, MaxPromptReadme) >>,
      << AFile(<<<<"R","E","A","D","M","E",".","m","d">>>>, MaxPromptReadme + 1) >>,
      << AFile(<<<<"R","E","A","D","M","E",".","m","d">>>>, readme_max_size + 1) >>,
      << [rel |-> <<<<"R","E","A","D","M","E",".","m","d">>>>, size |-> 5, readable |-> FALSE] >> }

SecondReadmeForms == { <<>>, << AFile(<<<<"R","E","A","D","M","E",".","r","s","t">>>>, 7) >> }

MarkerForms == { <<>>, << AFile(<<<<"p","a","c","k","a","g","e",".","j","s","o","n">>>>, 9) >>, << AFile(<<<<"s","e","t","u","p",".","p","y">>>>, 9) >> }

DocsForms == { <<>>, << AFile(<<<<"d","o","c","s">>, <<"i","n","d","e","x",".","m","d">>>>, 9) >> }

CodeForms ==
    { <<>>,
      << AFile(<<<<"s","r","c">>, <<"a",".","p","y">>>>, ContentCap + 1) >>,
      << AFile(<<<<"s","r","c">>, <<"a",".","p","y">>>>, ContentCap + 1), AFile(<<<<"b",".","j","s">>>>, 9),
         AFile(<<<<"c",".","g","o">>>>, 9), AFile(<<<<"d",".","r","s">>>>, 9) >> }

HiddenForms == { <<>>, << AFile(<<<<".","g","i","t","h","u","b">>, <<"c","i",".","y","m","l">>>>, 9) >> }

\* the k-th further top-level file: f, k times x
PadFile(k) == AFile(<< <<"f">> \o [i \in 1..k |-> "x"] >>, 9)

\* the numbers of further top-level files: with them a clone shows up to one
\* entry more than the prompt lists
PadCounts == {0, MaxPromptEntries - 8, MaxPromptEntries - 7}

AnalysisTrees ==
    { r1 \o r2 \o m \o d \o c \o h \o [k \in 1..n |-> PadFile(k)] :
        r1 \in ReadmeForms, r2 \in SecondReadmeForms, m \in MarkerForms, d \in DocsForms,
        c \in CodeForms, h \in HiddenForms, n \in PadCounts }

\* the clones of o/r and of o/samples
AnalysisRepos == { TEMP_DIR \o <<<<"o","_","r">>>>, TEMP_DIR \o <<<<"o","_","s","a","m","p","l","e","s">>>> }

\* the steps in which a read or stat error may occur
AnalysisFaults ==
    { "none", "readme exists", "readme stat", "structure", "samples", "repo_type",
      "languages", "documentation", "count" }

\* JSON null, as Python's None
PyNone == [kind |-> "None"]
PyStr(text) == [kind |-> "str", text |-> text]

\* the metadata of the hosting service: with a description, with a null
\* description, without the key
Metadatas ==
    { [description |-> PyStr("A tool")], [description |-> PyNone], [stars |-> 1] }

\* the template: the file's text, or "" when it could not be read
Templates == { "skill_prompt.txt", "" }

\* evidence not made by analyze_repository: any of the keys may be missing
FullEvidence ==
    [readme_content |-> MaxPromptReadme + 1,
     file_structure |-> [i \in 1..MaxPromptEntries + 1 |-> structure_entry(<<>>, PadFile(i).rel[1])],
     code_samples |-> [i \in 1..MaxPromptSamples + 1 |->
                          [file |-> PadFile(i).rel[1], language |-> <<"p","y">>, content_len |-> 1]],
     repo_type |-> "library",
     languages |-> {"Python", "Go"}]

Restrict(f, keys) == [k \in keys |-> f[k]]

GivenEvidence ==
    { Restrict(FullEvidence, keys) : keys \in SUBSET DOMAIN FullEvidence }
        \cup { [code_samples |-> << [file |-> <<"a",".","p","y">>, content |-> 1] >>] }

NoRepo == [path |-> <<>>, tree |-> <<>>]
NoMetadata == [absent |-> TRUE]

AnalysisIdle ==
    /\ a_repo = NoRepo
    /\ a_fault = "none"
    /\ a_metadata = NoMetadata
    /\ a_template = ""
    /\ a_pc = "idle"
    /\ a_analysis = NoAnalysis
    /\ a_prompt = NoPrompt

AnalysisInit ==
    /\ a_metadata = NoMetadata
    /\ a_template = ""
    /\ a_prompt = NoPrompt
    /\ \/ /\ a_repo \in [path : AnalysisRepos, tree : AnalysisTrees]
          /\ a_fault \in AnalysisFaults
          /\ a_pc = "analyze"
          /\ a_analysis = NoAnalysis
       \/ /\ a_repo = NoRepo
          /\ a_fault = "none"
          /\ a_pc = "prompt"
          /\ a_analysis \in { Analyzed(e) : e \in GivenEvidence }

\* app.py line 431: analyzer.analyze_repository(repo_path)
Analyze ==
    /\ a_pc = "analyze"
    /\ a_analysis' = analyze_repository(a_repo.path, a_repo.tree, a_fault)
    /\ a_pc' = IF a_analysis'.kind = "raise" THEN "ret" ELSE "prompt"
    /\ UNCHANGED <<a_repo, a_fault, a_metadata, a_template, a_prompt>>
    /\ UNCHANGED not_a_vars

\* ai_generator.py line 50: self._prepare_prompt(...)
PreparePrompt ==
    /\ a_pc = "prompt"
    /\ \E metadata \in Metadatas, template \in Templates :
          /\ a_metadata' = metadata
          /\ a_template' = template
          /\ a_prompt' = prepare_prompt(template, metadata, a_analysis.analysis)
    /\ a_pc' = "ret"
    /\ UNCHANGED <<a_repo, a_fault, a_analysis>>
    /\ UNCHANGED not_a_vars

(***************************************************************************)
(* Runs at the same time.  Each session runs generate_skill_workflow in a  *)
(* thread of its own; all of them clone below the one TEMP_DIR.  The steps *)
(* of a run are the filesystem operations of clone_repository and cleanup. *)
(***************************************************************************)

Runs == {1, 2}

\* the locators of the runs: o/r twice written, three repositories whose
\* names differ only in characters the sanitizer replaces, one apart, and one
\* that is rejected
RunUrlPool ==
    { HttpsGitHub \o <<"/","o","/","r">>,
      HttpsGitHub \o <<"/","o","/","r",".","g","i","t">>,
      HttpsGitHub \o <<"/","o","/","r",".","x">>,
      HttpsGitHub \o <<"/","o","/","r","_","x">>,
      HttpsGitHub \o <<"/","o","_","r","/","x">>,
      HttpsGitHub \o <<"/","p","/","q">>,
      <<"h","t","t","p",":","/","/","g","i","t","h","u","b",".","c","o","m","/","o","/","r">> }

\* the names below TEMP_DIR that the runs may use
ScratchNames == { safe_name(url) : url \in { v \in RunUrlPool : validate_github_url(v).ok } }

NoPath == <<>>

\* how the clone of a run ends: git succeeds, git fails, or the clone is
\* over max_size
GitOutcomes == {"cloned", "git error", "too large"}

\* lines 118-146: validation, clone_path, removal of what lies there
run_clone_begin(i) ==
    /\ r_pc[i] = "start"
    /\ IF ~validate_github_url(r_url[i]).ok
         THEN /\ r_pc' = [r_pc EXCEPT ![i] = "done"]
              /\ r_ret' = [r_ret EXCEPT ![i] = "None"]
              /\ UNCHANGED <<r_path, r_disk>>
       ELSE /\ r_path' = [r_path EXCEPT ![i] = safe_name(r_url[i])]
            /\ r_disk' = [r_disk EXCEPT ![safe_name(r_url[i])] = 0]
            /\ r_pc' = [r_pc EXCEPT ![i] = "cloning"]
            /\ UNCHANGED r_ret
    /\ UNCHANGED r_url
    /\ UNCHANGED not_r_vars

\* lines 148-181: git.Repo.clone_from, the size test and the handlers.  git
\* refuses a directory that exists and is not empty; every failure removes
\* what lies at clone_path.
run_clone_end(i) ==
    /\ r_pc[i] = "cloning"
    /\ \E git \in GitOutcomes :
          IF git = "cloned" /\ r_disk[r_path[i]] = 0
            THEN /\ r_disk' = [r_disk EXCEPT ![r_path[i]] = i]
                 /\ r_pc' = [r_pc EXCEPT ![i] = "cloned"]
                 /\ r_ret' = [r_ret EXCEPT ![i] = "path"]
          ELSE /\ r_disk' = [r_disk EXCEPT ![r_path[i]] = 0]
               /\ r_pc' = [r_pc EXCEPT ![i] = "done"]
               /\ r_ret' = [r_ret EXCEPT ![i] = "None"]
    /\ UNCHANGED <<r_url, r_path>>
    /\ UNCHANGED not_r_vars

\* app.py lines 420-459: the steps on the clone, ended by analyzer.cleanup
\* (repo_analyzer.py lines 368-374) or, when a step raises, without it
run_finish(i) ==
    /\ r_pc[i] = "cloned"
    /\ \E cleaned \in BOOLEAN :
          r_disk' = IF cleaned THEN [r_disk EXCEPT ![r_path[i]] = 0] ELSE r_disk
    /\ r_pc' = [r_pc EXCEPT ![i] = "done"]
    /\ UNCHANGED <<r_url, r_path, r_ret>>
    /\ UNCHANGED not_r_vars

RunsIdle ==
    /\ r_url = <<>>
    /\ r_pc = <<>>
    /\ r_path = <<>>
    /\ r_ret = <<>>
    /\ r_disk = <<>>

RunsInit ==
    /\ r_url \in [Runs -> RunUrlPool]
    /\ r_pc = [i \in Runs |-> "start"]
    /\ r_path = [i \in Runs |-> NoPath]
    /\ r_ret = [i \in Runs |-> "none"]
    /\ r_disk = [name \in ScratchNames |-> 0]

(***************************************************************************)
(* The effects of a run on the outside: file reads, the provider client,   *)
(* the database, the metadata request, the clone, the provider call        *)
(* (app.py lines 356-459)                                                  *)
(***************************************************************************)

\* what the metadata request may meet.  requests.get follows redirects, so a
\* final 3xx status is one the client could not follow.
Responses ==
    { [kind |-> "status", status |-> 200, body |-> "object"],
      [kind |-> "status", status |-> 200, body |-> "empty object"],
      [kind |-> "status", status |-> 200, body |-> "not json"],
      [kind |-> "status", status |-> 300, body |-> "object"],
      [kind |-> "status", status |-> 304, body |-> "not json"],
      [kind |-> "status", status |-> 403, body |-> "object"],
      [kind |-> "status", status |-> 404, body |-> "object"],
      [kind |-> "status", status |-> 500, body |-> "not json"],
      [kind |-> "timeout", status |-> 0, body |-> "none"],
      [kind |-> "connection error", status |-> 0, body |-> "none"] }

\* how fetch_repo_metadata ends
FetchReturned(value) == [kind |-> "return", value |-> value]
FetchRaised == [kind |-> "raise", value |-> "ValueError"]
NotFetched == [kind |-> "none", value |-> "none"]

\* response.raise_for_status(): HTTPError for the statuses 400 to 599
raise_for_status(response) == response.status >= 400 /\ response.status < 600

\* the except clause of lines 103-105 swallowing nothing
fetch_handler_reraises(caught) == FetchRaised

\* lines 103-105: except requests.RequestException: return None
fetch_handler(caught) == FetchReturned("None")

\* line 102: response.json().  The error of a body that is no JSON is a
\* RequestException in the newer versions of the library (then caught at
\* line 103) and a plain ValueError in the older ones (then leaving the method).
response_json(response) ==
    IF response.body = "not json" THEN { fetch_handler("JSONDecodeError"), FetchRaised }
    ELSE { FetchReturned(response.body) }

\* lines 90-105: fetch_repo_metadata, by what the one request meets
fetch_repo_metadata(response) ==
    IF response.kind # "status" THEN { fetch_handler(response.kind) }
    ELSE IF raise_for_status(response) THEN { fetch_handler("HTTPError") }
    ELSE response_json(response)

\* how the run ends
EffectsEnd(how) == e_pc' = "done" /\ e_outcome' = how

\* lines 356-393: the components.  create_generator raises without the
\* credential; with it the generator reads its template (ai_generator.py
\* lines 18-27) and builds the provider client, and SkillDatabase() opens the
\* database and creates its table (database.py lines 16-49).
effects_construct ==
    /\ e_pc = "construct"
    /\ IF e_cred
         THEN /\ e_log' = e_log \o <<"template read", "provider client", "database open">>
              /\ e_pc' = "validate"
              /\ UNCHANGED e_outcome
       ELSE EffectsEnd("exception") /\ UNCHANGED e_log
    /\ UNCHANGED <<e_url, e_cred, e_requests, e_meta>>
    /\ UNCHANGED not_e_vars

\* lines 395-400: validation and its report
effects_validate ==
    /\ e_pc = "validate"
    /\ IF validate_github_url(e_url).ok
         THEN e_pc' = "fetch" /\ UNCHANGED <<e_log, e_outcome>>
       ELSE EffectsEnd("invalid_url") /\ e_log' = Append(e_log, "validation reported")
    /\ UNCHANGED <<e_url, e_cred, e_requests, e_meta>>
    /\ UNCHANGED not_e_vars

\* lines 402-410: the metadata request; a falsy result ends the run
effects_fetch ==
    /\ e_pc = "fetch"
    /\ \E response \in Responses : \E ret \in fetch_repo_metadata(response) :
          /\ e_requests' = Append(e_requests, response)
          /\ e_meta' = ret
          /\ IF ret.kind = "raise" THEN EffectsEnd("exception")
             ELSE IF ret.value \in {"None", "empty object"} THEN EffectsEnd("no_metadata")
             ELSE e_pc' = "clone" /\ UNCHANGED e_outcome
    /\ e_log' = Append(e_log, "metadata request")
    /\ UNCHANGED <<e_url, e_cred>>
    /\ UNCHANGED not_e_vars

\* lines 412-418: clone_repository; None ends the run
effects_clone ==
    /\ e_pc = "clone"
    /\ e_log' = Append(e_log, "clone")
    /\ \E cloned \in BOOLEAN :
          IF cloned THEN e_pc' = "generate" /\ UNCHANGED e_outcome
          ELSE EffectsEnd("clone_failed")
    /\ UNCHANGED <<e_url, e_cred, e_requests, e_meta>>
    /\ UNCHANGED not_e_vars

\* lines 420-459: the provider is called; the clone is removed on every
\* return of the following steps
effects_generate ==
    /\ e_pc = "generate"
    /\ e_log' = e_log \o <<"provider call", "cleanup">>
    /\ \E how \in {"no_skill", "package_failed", "success"} : EffectsEnd(how)
    /\ UNCHANGED <<e_url, e_cred, e_requests, e_meta>>
    /\ UNCHANGED not_e_vars

EffectsIdle ==
    /\ e_url = <<>>
    /\ e_cred = FALSE
    /\ e_pc = "idle"
    /\ e_log = <<>>
    /\ e_requests = <<>>
    /\ e_meta = NotFetched
    /\ e_outcome = "idle"

EffectsInit ==
    /\ e_url \in WorkflowUrls \cup RunUrlPool
    /\ e_cred \in BOOLEAN
    /\ e_pc = "construct"
    /\ e_log = <<>>
    /\ e_requests = <<>>
    /\ e_meta = NotFetched
    /\ e_outcome = "running"

(***************************************************************************)
(* Installation: SkillPackager.install_skill and uninstall_skill,          *)
(* packager.py lines 61-144.  The installation root maps a name to what    *)
(* lies under it: nothing, a directory with its files, a plain file, a     *)
(* symbolic link to a directory, or a symbolic link to nothing.            *)
(***************************************************************************)

Nothing == [kind |-> "absent", files |-> {}]
Dir(files) == [kind |-> "dir", files |-> files]
PlainFile == [kind |-> "file", files |-> {}]
LinkToDir == [kind |-> "link", files |-> {"old.md"}]
DanglingLink == [kind |-> "dangling", files |-> {}]

\* Path.exists(), which follows symbolic links
entry_exists(entry) == entry.kind \in {"dir", "file", "link"}

\* lines 137-144: is_skill_installed
is_skill_installed(root, skill_name) ==
    /\ entry_exists(root[skill_name])
    /\ "SKILL.md" \in root[skill_name].files

\* what a call of the packager ends with: the returned pair and the root
Installed(ok, message, root) == [ok |-> ok, message |-> message, root |-> root]

\* shutil.rmtree(install_path): it refuses a symbolic link and a plain file;
\* a fault may leave any part of the directory
rmtree_entry(root, name, fault) ==
    IF root[name].kind # "dir" THEN {}
    ELSE IF fault = "rmtree" THEN { [root EXCEPT ![name] = Dir(kept)] : kept \in SUBSET root[name].files }
    ELSE { [root EXCEPT ![name] = Nothing] }

\* shutil.copytree(skill_dir, install_path): it needs the name to be free; a
\* fault may leave any part of the copy
copytree(root, skill, fault) ==
    IF root[skill.name].kind # "absent" THEN {}
    ELSE IF fault = "copytree"
      THEN { [root EXCEPT ![skill.name] = Dir(copied)] : copied \in (SUBSET skill.files) \ {skill.files} }
    ELSE { [root EXCEPT ![skill.name] = Dir(skill.files)] }

\* lines 96-108: the copy and the two ways the call returns after it
install_copy(cleared, skill, fault) ==
    IF copytree(cleared, skill, "none") = {}
      THEN { Installed(FALSE, "Installation error", cleared) }
    ELSE IF fault = "copytree"
      THEN { Installed(FALSE, "Installation error", root) : root \in copytree(cleared, skill, fault) }
    ELSE { Installed(TRUE, "Skill installed successfully", root) :
              root \in copytree(cleared, skill, fault) }

\* install_skill copying over what lies under the name, without removing it
install_skill_merging(root, skill, fault) ==
    IF root[skill.name].kind \in {"dir", "absent"}
      THEN { Installed(TRUE, "Skill installed successfully",
                       [root EXCEPT ![skill.name] = Dir(root[skill.name].files \cup skill.files)]) }
    ELSE { Installed(FALSE, "Installation error", root) }

\* lines 84-108: install_skill(skill_dir, claude_skills_dir)
install_skill(root, skill, fault) ==
    IF fault = "mkdir" THEN { Installed(FALSE, "Permission denied", root) }
    ELSE IF ~entry_exists(root[skill.name]) THEN install_copy(root, skill, fault)
    ELSE IF rmtree_entry(root, skill.name, "none") = {}
      THEN { Installed(FALSE, "Installation error", root) }
    ELSE IF fault = "rmtree"
      THEN { Installed(FALSE, "Permission denied", left) :
                left \in rmtree_entry(root, skill.name, fault) }
    ELSE UNION { install_copy(cleared, skill, fault) :
                    cleared \in rmtree_entry(root, skill.name, fault) }

\* lines 110-135: uninstall_skill(skill_name, claude_skills_dir)
uninstall_skill(root, skill_name, fault) ==
    IF ~entry_exists(root[skill_name]) THEN { Installed(FALSE, "is not installed", root) }
    ELSE IF rmtree_entry(root, skill_name, "none") = {}
      THEN { Installed(FALSE, "Error uninstalling skill", root) }
    ELSE IF fault = "rmtree"
      THEN { Installed(FALSE, "Error uninstalling skill", left) :
                left \in rmtree_entry(root, skill_name, fault) }
    ELSE { Installed(TRUE, "uninstalled successfully", cleared) :
              cleared \in rmtree_entry(root, skill_name, fault) }

\* the names under the installation root, the files, and the skills installed
InstallNames == {"s", "t"}
InstallFiles == {"SKILL.md", "old.md", "ref.md"}
InstallSkills ==
    { [name |-> "s", files |-> {"SKILL.md"}], [name |-> "s", files |-> {"SKILL.md", "ref.md"}],
      [name |-> "t", files |-> {"SKILL.md"}] }
InstallEntries ==
    { Nothing, Dir({"old.md"}), Dir({"SKILL.md", "old.md"}), PlainFile, LinkToDir, DanglingLink }
InstallFaults == {"none", "mkdir", "rmtree", "copytree"}

\* the most calls of the packager in a row
MaxInstallCalls == 3

NoCall == [call |-> "none", name |-> "", ok |-> FALSE, message |-> ""]

InstallIdle ==
    /\ i_skill = [name |-> "", files |-> {}]
    /\ i_root = <<>>
    /\ i_before = <<>>
    /\ i_ret = NoCall
    /\ i_calls = <<>>

InstallInit ==
    /\ i_skill \in InstallSkills
    /\ i_root \in [InstallNames -> InstallEntries]
    /\ i_before = i_root
    /\ i_ret = NoCall
    /\ i_calls = <<>>

\* a call of install_skill(skill_dir)
InstallSkill ==
    /\ Len(i_calls) < MaxInstallCalls
    /\ \E fault \in InstallFaults : \E end \in install_skill(i_root, i_skill, fault) :
          /\ i_root' = end.root
          /\ i_ret' = [call |-> "install", name |-> i_skill.name, ok |-> end.ok,
                       message |-> end.message]
    /\ i_before' = i_root
    /\ i_calls' = Append(i_calls, i_ret')
    /\ UNCHANGED i_skill
    /\ UNCHANGED not_i_vars

\* a call of uninstall_skill(skill_name)
UninstallSkill ==
    /\ Len(i_calls) < MaxInstallCalls
    /\ \E skill_name \in InstallNames, fault \in {"none", "rmtree"} :
          \E end \in uninstall_skill(i_root, skill_name, fault) :
              /\ i_root' = end.root
              /\ i_ret' = [call |-> "uninstall", name |-> skill_name, ok |-> end.ok,
                           message |-> end.message]
    /\ i_before' = i_root
    /\ i_calls' = Append(i_calls, i_ret')
    /\ UNCHANGED i_skill
    /\ UNCHANGED not_i_vars

(***************************************************************************)
(* Batch generation: batch_generation_ui (app.py lines 299-334) and        *)
(* batch_generate_workflow (lines 495-505)                                 *)
(***************************************************************************)

\* config.MAX_BATCH_SIZE
MAX_BATCH_SIZE == 5

\* line 300: the lines of the text area, stripped, without the empty ones
RECURSIVE entered_urls(_)
entered_urls(lines) ==
    IF lines = <<>> THEN <<>>
    ELSE IF StripChars(Head(lines), PyWhitespace) = <<>> THEN entered_urls(Tail(lines))
    ELSE <<StripChars(Head(lines), PyWhitespace)>> \o entered_urls(Tail(lines))

\* lines 305-307: only the first MAX_BATCH_SIZE are kept
kept_urls(urls) == IF Len(urls) > MAX_BATCH_SIZE THEN Take(urls, MAX_BATCH_SIZE) ELSE urls

\* lines 310-334: the button was pressed; without the credential or without a
\* URL nothing is generated
batch_generation_ui ==
    /\ t_pc = "ui"
    /\ t_urls' = kept_urls(entered_urls(t_entered))
    /\ t_pc' = IF ~t_credential \/ entered_urls(t_entered) = <<>> THEN "done" ELSE "loop"
    /\ UNCHANGED <<t_entered, t_credential, t_runs, not_t_vars>>

\* what a run of generate_skill_workflow can end as, by its locator
RunOutcomes(url) ==
    IF validate_github_url(url).ok
      THEN {"no_metadata", "clone_failed", "generation_failed", "package_failed",
            "exception", "success"}
      ELSE {"invalid_url", "exception"}

\* app.py line 487: st.rerun() at the end of a successful run stops the script
\* run (its exception is no Exception, so line 489 does not catch it);
\* every other run returns to its caller
run_ends_script(how) == how = "success"

\* lines 501-505: one pass of the loop, generate_skill_workflow(url) from its
\* call to its end; a successful run writes its history row and its result
batch_run(url, how) ==
    /\ t_runs' = Append(t_runs, [repo_url |-> url, outcome |-> how])
    /\ IF how = "success"
         THEN /\ history' = Append(history, HistoryRow(url, "success", "none"))
              /\ stored' = StoredResult(url)
              /\ rerun' = TRUE
         ELSE UNCHANGED <<history, stored, rerun>>
    /\ t_pc' = IF run_ends_script(how) THEN "halted"
               ELSE IF Len(t_runs) + 1 = Len(t_urls) THEN "done"
               ELSE "loop"

\* batch_generate_workflow(urls): the next pass of its loop
batch_generate_workflow ==
    /\ t_pc = "loop"
    /\ \E how \in RunOutcomes(t_urls[Len(t_runs) + 1]) :
          batch_run(t_urls[Len(t_runs) + 1], how)
    /\ UNCHANGED <<t_entered, t_credential, t_urls, validation, packaging, not_th_vars>>

\* the most lines entered
MaxEntered == 6

\* the lines entered: two well-formed locators, one that is turned down, and a
\* blank line
BatchGood == HttpsGitHub \o <<"/","o","/","r">>
BatchOther == <<" ">> \o HttpsGitHub \o <<"/","o","/","s">> \o <<" ">>
BatchBad == <<"h","t","t","p",":","/","/">> \o GitHubHost \o <<"/","o","/","r">>
BatchBlank == <<" ", " ">>
BatchEntered ==
    UNION { [1..n -> {BatchGood, BatchBad}] : n \in 0..MaxEntered }
      \cup UNION { [1..n -> {BatchGood, BatchOther, BatchBlank}] : n \in 0..3 }

BatchIdle ==
    /\ t_entered = <<>>
    /\ t_credential = FALSE
    /\ t_urls = <<>>
    /\ t_pc = "idle"
    /\ t_runs = <<>>

BatchInit ==
    /\ t_entered \in BatchEntered
    /\ t_credential \in BOOLEAN
    /\ t_urls = <<>>
    /\ t_pc = "ui"
    /\ t_runs = <<>>

(***************************************************************************)
(* Specification SpecUrl: validate_github_url called on one locator.       *)
(***************************************************************************)

\* how far beyond (and below) the length limit the padded locators go
PadSlack == 2

\* scheme parts of the locators tried
UrlPrefixes ==
    { <<"h","t","t","p","s",":","/","/">>,
      <<"h","t","t","p",":","/","/">>,
      <<"H","T","T","P","S",":","/","/">>,
      <<"f","t","p",":","/","/">>,
      <<"h","t","t","p","s",":","/">>,
      <<"/","/">>,
      <<>> }

\* host parts of the locators tried
UrlHosts ==
    { <<"g","i","t","h","u","b",".","c","o","m">>,
      <<"w","w","w",".","g","i","t","h","u","b",".","c","o","m">>,
      <<"a","p","i",".","g","i","t","h","u","b",".","c","o","m">>,
      <<"g","i","t","h","u","b",".","c","o","m",".","e","v","i","l",".","i","o">>,
      <<"e","v","i","l",".","c","o","m">>,
      <<"G","i","t","H","u","b",".","c","o","m">>,
      <<"g","i","t","h","u","b",".","c","o","m",":","4","4","3">>,
      <<"u","@","g","i","t","h","u","b",".","c","o","m">>,
      <<>>,
      <<"[","g","i","t","h","u","b",".","c","o","m">> }

\* path parts of the locators tried
UrlPaths ==
    { <<>>,
      <<"/">>,
      <<"/","o">>,
      <<"/","o","/">>,
      <<"/","o","/","r">>,
      <<"/","o","/","r",".","g","i","t">>,
      <<"/","o","/",".","g","i","t">>,
      <<"/","o","/","a",".","g","i","t","b">>,
      <<"/","o","w"," ","n","e","r","/","r","e","p","o">>,
      <<"/","o","/","r"," ","r">>,
      <<"/","o","/","r","/","t","r","e","e">>,
      <<"/","/","o","/","r">>,
      <<"/","o","/","r","?","q">>,
      <<"/","o","/","r","#","f">>,
      <<"/","o",".","x","/","r">>,
      <<"/","o","/","r",".","x">>,
      <<"/","-","/","_">>,
      <<"/","o","/","r","\n">>,
      <<"/","o","\n","/","r">>,
      <<"/","o","/","r",";","p">>,
      <<"/","o","/","r","/">>,
      <<"/","O","1","/","R","2">> }

\* https://github.com/o/ followed by n times r: a well-formed locator of any length
WellFormedHead ==
    <<"h","t","t","p","s",":","/","/","g","i","t","h","u","b",".","c","o","m","/","o","/">>

PaddedUrl(n) == WellFormedHead \o [i \in 1..(n - Len(WellFormedHead)) |-> "r"]

\* the same padding behind a locator whose scheme is not https
PaddedBadUrl(n) ==
    <<"h","t","t","p",":","/","/","x","/">> \o [i \in 1..(n - 9) |-> "r"]

UrlInputs ==
    {<<>>}
    \cup {p \o h \o t : p \in UrlPrefixes, h \in UrlHosts, t \in UrlPaths}
    \cup {PaddedUrl(n) : n \in (MaxUrlLen - PadSlack)..(MaxUrlLen + PadSlack)}
    \cup {PaddedBadUrl(n) : n \in (MaxUrlLen - PadSlack)..(MaxUrlLen + PadSlack)}

NoRet == [ok |-> FALSE, reason |-> "(not called)"]

UrlIdle == u_url = <<>> /\ u_pc = "idle" /\ u_ret = NoRet

UrlInit == u_url \in UrlInputs /\ u_pc = "call" /\ u_ret = NoRet

\* one call of validate_github_url
UrlValidate ==
    /\ u_pc = "call"
    /\ u_ret' = validate_github_url(u_url)
    /\ u_pc' = "ret"
    /\ UNCHANGED <<u_url, not_u_vars>>

SpecUrlInit ==
    /\ UrlInit /\ WorkflowIdle /\ SamplesIdle /\ ParseIdle /\ BatchIdle /\ AnalysisIdle /\ RunsIdle /\ EffectsIdle /\ InstallIdle
    /\ GenerateIdle /\ CreateIdle /\ BuildIdle /\ HistoryIdle

SpecUrlNext == UrlValidate

SpecUrl == SpecUrlInit /\ [][SpecUrlNext]_vars

Init ==
    /\ WorkflowInit /\ HistoryInit /\ UrlIdle /\ SamplesIdle /\ ParseIdle /\ AnalysisIdle /\ RunsIdle /\ EffectsIdle /\ InstallIdle
    /\ GenerateIdle /\ CreateIdle /\ BuildIdle /\ BatchIdle

Next ==
    \/ generate_skill_workflow
    \/ clone_repository
    \/ direct_call_clone
    \/ direct_after_clone

Spec == Init /\ [][Next]_vars

SpecSamplesInit ==
    /\ SamplesInit /\ UrlIdle /\ WorkflowIdle /\ ParseIdle /\ BatchIdle /\ AnalysisIdle /\ RunsIdle /\ EffectsIdle /\ InstallIdle
    /\ GenerateIdle /\ CreateIdle /\ BuildIdle /\ HistoryIdle

SpecSamplesNext == SamplesExtract

SpecSamples == SpecSamplesInit /\ [][SpecSamplesNext]_vars

SpecParseInit ==
    /\ ParseInit /\ UrlIdle /\ WorkflowIdle /\ SamplesIdle /\ BatchIdle /\ AnalysisIdle /\ RunsIdle /\ EffectsIdle /\ InstallIdle
    /\ GenerateIdle /\ CreateIdle /\ BuildIdle /\ HistoryIdle

SpecParseNext == ParseResponse

SpecParse == SpecParseInit /\ [][SpecParseNext]_vars

SpecGenerateInit ==
    /\ GenerateInit /\ UrlIdle /\ WorkflowIdle /\ SamplesIdle /\ ParseIdle /\ BatchIdle /\ AnalysisIdle /\ RunsIdle /\ EffectsIdle /\ InstallIdle
    /\ CreateIdle /\ BuildIdle /\ HistoryIdle

SpecGenerateNext ==
    \/ generate_enter
    \/ generate_prepare_prompt
    \/ generate_call_api
    \/ generate_parse

SpecGenerate == SpecGenerateInit /\ [][SpecGenerateNext]_vars

(***************************************************************************)
(* Specification SpecCreate: one call of create_generator                  *)
(***************************************************************************)
SpecCreateInit ==
    /\ CreateInit /\ UrlIdle /\ WorkflowIdle /\ SamplesIdle /\ ParseIdle /\ HistoryIdle /\ BatchIdle /\ AnalysisIdle /\ RunsIdle /\ EffectsIdle /\ InstallIdle
    /\ GenerateIdle /\ BuildIdle

SpecCreateNext ==
    \/ create_generator
    \/ generator_init

SpecCreate == SpecCreateInit /\ [][SpecCreateNext]_vars

(***************************************************************************)
(* Specification SpecBuild: a response is parsed and the document is built *)
(***************************************************************************)
SpecBuildInit ==
    /\ BuildInit /\ UrlIdle /\ WorkflowIdle /\ SamplesIdle /\ HistoryIdle /\ BatchIdle /\ AnalysisIdle /\ RunsIdle /\ EffectsIdle /\ InstallIdle
    /\ GenerateIdle /\ CreateIdle

SpecBuildNext ==
    \/ ParseResponse
    \/ BuildSkill

SpecBuild == SpecBuildInit /\ [][SpecBuildNext]_vars

(***************************************************************************)
(* Specification SpecBatch: the batch button is pressed once               *)
(***************************************************************************)
SpecBatchInit ==
    /\ BatchInit /\ HistoryIdle /\ UrlIdle /\ WorkflowIdle /\ SamplesIdle /\ AnalysisIdle /\ RunsIdle /\ EffectsIdle /\ InstallIdle
    /\ ParseIdle /\ GenerateIdle /\ CreateIdle /\ BuildIdle

SpecBatchNext ==
    \/ batch_generation_ui
    \/ batch_generate_workflow

SpecBatch == SpecBatchInit /\ [][SpecBatchNext]_vars


(***************************************************************************)
(* SpecAnalysis: a clone is analysed and the prompt made of the evidence   *)
(***************************************************************************)

SpecAnalysisInit ==
    /\ AnalysisInit /\ HistoryIdle /\ UrlIdle /\ WorkflowIdle /\ SamplesIdle /\ RunsIdle /\ EffectsIdle /\ InstallIdle
    /\ ParseIdle /\ GenerateIdle /\ CreateIdle /\ BuildIdle /\ BatchIdle

SpecAnalysisNext ==
    \/ Analyze
    \/ PreparePrompt

SpecAnalysis == SpecAnalysisInit /\ [][SpecAnalysisNext]_vars


(***************************************************************************)
(* SpecRuns: two runs of the workflow at the same time                     *)
(***************************************************************************)

SpecRunsInit ==
    /\ RunsInit /\ HistoryIdle /\ UrlIdle /\ WorkflowIdle /\ SamplesIdle /\ AnalysisIdle /\ EffectsIdle /\ InstallIdle
    /\ ParseIdle /\ GenerateIdle /\ CreateIdle /\ BuildIdle /\ BatchIdle

SpecRunsNext ==
    \/ \E i \in Runs : run_clone_begin(i)
    \/ \E i \in Runs : run_clone_end(i)
    \/ \E i \in Runs : run_finish(i)

SpecRuns == SpecRunsInit /\ [][SpecRunsNext]_vars


(***************************************************************************)
(* SpecEffects: one run of the workflow and its effects on the outside     *)
(***************************************************************************)

SpecEffectsInit ==
    /\ EffectsInit /\ HistoryIdle /\ UrlIdle /\ WorkflowIdle /\ SamplesIdle /\ AnalysisIdle /\ InstallIdle
    /\ ParseIdle /\ GenerateIdle /\ CreateIdle /\ BuildIdle /\ BatchIdle /\ RunsIdle

SpecEffectsNext ==
    \/ effects_construct
    \/ effects_validate
    \/ effects_fetch
    \/ effects_clone
    \/ effects_generate

SpecEffects == SpecEffectsInit /\ [][SpecEffectsNext]_vars


(***************************************************************************)
(* SpecInstall: calls of install_skill and uninstall_skill                 *)
(***************************************************************************)

SpecInstallInit ==
    /\ InstallInit /\ HistoryIdle /\ UrlIdle /\ WorkflowIdle /\ SamplesIdle /\ AnalysisIdle
    /\ ParseIdle /\ GenerateIdle /\ CreateIdle /\ BuildIdle /\ BatchIdle /\ RunsIdle /\ EffectsIdle

SpecInstallNext ==
    \/ InstallSkill
    \/ UninstallSkill

SpecInstall == SpecInstallInit /\ [][SpecInstallNext]_vars

(***************************************************************************)
(* Claims about validate_github_url (checked under SpecUrl)                *)
(***************************************************************************)

\* a whole string made of one or more characters of the class
FullMatch(s, class) == s # <<>> /\ \A i \in 1..Len(s) : s[i] \in class

\* the segments of the locator's path
SegmentsOf(url) == path_parts(urlparse(url).path)

\* the rejection cases C3 lists
C3_RejectCase(url) ==
    \/ url = <<>>
    \/ Len(url) > 500
    \/ urlparse(url).scheme # HTTPS
    \/ Len(SegmentsOf(url)) < 2
    \/ ~FullMatch(SegmentsOf(url)[1], OwnerClass)
    \/ ~FullMatch(SegmentsOf(url)[2], RepoClass)

\* the owner segment is the (first) offending part of the locator
C3_OwnerOffends(url) ==
    /\ url # <<>>
    /\ Len(url) <= 500
    /\ ~urlparse(url).raised
    /\ urlparse(url).scheme = HTTPS
    /\ urlparse(url).netloc \in {GitHubHost, WwwGitHubHost}
    /\ Len(SegmentsOf(url)) >= 2
    /\ ~FullMatch(SegmentsOf(url)[1], OwnerClass)

\* C3: validate_github_url returns (False, reason) for empty input, input longer
\* than 500 characters (500 itself accepted, 501 rejected), a scheme other than
\* https, fewer than two path segments, an owner segment outside [A-Za-z0-9_-]+ and
\* a repo segment outside [A-Za-z0-9_.-]+; when the owner segment is the offending
\* part the reason names the owner; (True, "") is returned only when none holds.
C3_ValidateRejects ==
    u_pc = "ret" =>
        /\ C3_RejectCase(u_url) => (~u_ret.ok /\ u_ret.reason # "")
        /\ C3_OwnerOffends(u_url) =>
              (~u_ret.ok /\ u_ret.reason = "Invalid repository owner name")
        /\ u_ret.ok => (~C3_RejectCase(u_url) /\ u_ret.reason = "")
        /\ u_url = PaddedUrl(500) => u_ret.ok
        /\ u_url = PaddedUrl(501) => ~u_ret.ok

\* the locator of the spec's scenario D, https://github.com/ow ner/repo
ScenarioD ==
    <<"h","t","t","p","s",":","/","/">> \o GitHubHost
        \o <<"/","o","w"," ","n","e","r","/","r","e","p","o">>

\* C3's case has happened: scenario D was rejected with the owner reason
C3_Witness ==
    /\ u_pc = "ret"
    /\ u_url = ScenarioD
    /\ ~u_ret.ok
    /\ u_ret.reason = "Invalid repository owner name"

\* C4 as stated: every accepted locator has a host that is exactly github.com
C4_HostExactlyGitHub ==
    (u_pc = "ret" /\ u_ret.ok) => urlparse(u_url).netloc = GitHubHost

\* C4, amended: every accepted locator has a host that is exactly github.com or
\* exactly www.github.com; every other host, the other subdomains of github.com
\* included, is rejected.
C4_HostGitHubOrWww ==
    u_pc = "ret" =>
        (u_ret.ok => urlparse(u_url).netloc \in {GitHubHost, WwwGitHubHost})

\* C4's case has happened: a www.github.com locator was accepted
C4_Witness ==
    /\ u_pc = "ret"
    /\ u_ret.ok
    /\ urlparse(u_url).netloc = WwwGitHubHost

(***************************************************************************)
(* Claims about the workflow and clone_repository (checked under Spec)     *)
(***************************************************************************)

\* clone_repository has returned a path to the workflow
ClonedForWorkflow == mode = "workflow" /\ clone_ret = "path" /\ pc # "w_cloning"

\* C1: once clone_repository has returned a path, cleanup is invoked on it
\* exactly once before generate_skill_workflow ends, on every exit path.
C1_CleanupExactlyOnce ==
    /\ ClonedForWorkflow => cleanupCalls <= 1
    /\ (ClonedForWorkflow /\ pc = "w_done") => cleanupCalls = 1

\* C2: for a locator validate_github_url rejects no clone is ever attempted: the
\* workflow never calls clone_repository, and clone_repository called directly
\* returns None without invoking git and without creating or deleting anything.
C2_NoCloneForInvalid ==
    ~validate_github_url(repo_url).ok =>
        /\ gitCalls = 0
        /\ mutations = {}
        /\ mode = "workflow" => (cloneCalls = 0 /\ cpc = "idle")
        /\ (mode = "direct" /\ cpc = "ret") => clone_ret = "None"

\* C2's case has happened: a direct call with a rejected locator has returned,
\* and the earlier clone on disk is still there
C2_Witness ==
    /\ mode = "direct"
    /\ pc = "d_done"
    /\ ~validate_github_url(repo_url).ok
    /\ clone_ret = "None"
    /\ dirs # {}

\* p lies strictly below root
IsDescendant(p, root) == Len(p) > Len(root) /\ SubSeq(p, 1, Len(root)) = root

\* clone_repository has resolved its clone path and the containment test let it
\* through
PassedContainment == clone_path # <<>> /\ clone_why # "traversal"

\* C5: the scratch name holds only characters of [A-Za-z0-9_-], the resolved clone
\* path is a descendant of the resolved TEMP_DIR, the containment test comes
\* before any filesystem mutation, and a path failing it makes clone_repository
\* return None with nothing mutated.
C5_ScratchPathContained ==
    /\ clone_path # <<>> => FullMatch(safe_name(repo_url), OwnerClass)
    /\ PassedContainment => IsDescendant(clone_path, TEMP_DIR)
    /\ \A m \in mutations : IsDescendant(m.path, TEMP_DIR)
    /\ clone_why = "traversal" => (clone_ret = "None" /\ mutations = {})

C6_BoundaryReached ==
    cpc = "ret" /\ clone_ret = "path" /\ total_size = max_size


(***************************************************************************)
(* Claims about the code samples (specification SpecSamples).              *)
(***************************************************************************)

\* whether the text s holds the word "test", whatever the case of its letters
HoldsTestAnyCase(s) ==
    \E i \in 1..(Len(s) - 3) :
        /\ s[i] \in {"t", "T"}
        /\ s[i + 1] \in {"e", "E"}
        /\ s[i + 2] \in {"s", "S"}
        /\ s[i + 3] \in {"t", "T"}

\* whether a segment of the relative path s begins with a dot
HoldsHiddenSegment(s) ==
    \/ s[1] = "."
    \/ \E i \in 1..(Len(s) - 1) : s[i] = "/" /\ s[i + 1] = "."

\* the files of the tree whose relative path is the text s
SourcesOf(s) == {j \in 1..Len(s_tree) : RelStr(s_tree[j].rel) = s}

\* C7: the list _extract_code_samples returns has at most 5 entries, every
\* entry's content has at most 2000 characters, no entry's relative path
\* holds "test" in any letter case or a segment beginning with a dot, and
\* every entry comes from a file whose size is neither 0 nor above 100 KB.
C7_SamplesBounded ==
    s_pc = "ret" =>
        /\ Len(s_samples) <= 5
        /\ \A k \in 1..Len(s_samples) :
              /\ s_samples[k].content_len <= 2000
              /\ ~HoldsTestAnyCase(s_samples[k].file)
              /\ ~HoldsHiddenSegment(s_samples[k].file)
              /\ SourcesOf(s_samples[k].file) # {}
              /\ \A j \in SourcesOf(s_samples[k].file) :
                    s_tree[j].size > 0 /\ s_tree[j].size <= 100 * 1024

\* C7 witness: a call on a tree holding more than five eligible files together
\* with a Test directory, a hidden directory, an empty file and a file above
\* 100 KB returned five samples, one of them cut to 2000 characters.
C7_Witness ==
    /\ s_pc = "ret"
    /\ Len(s_samples) = 5
    /\ \E k \in 1..5 : s_samples[k].content_len = 2000
    /\ \E j \in 1..Len(s_tree) : s_tree[j].rel[1] = <<"T","e","s","t">>
    /\ \E j \in 1..Len(s_tree) : s_tree[j].rel[1] = <<".","h","i","d">>
    /\ \E j \in 1..Len(s_tree) : s_tree[j].size = 0
    /\ \E j \in 1..Len(s_tree) : s_tree[j].size > 100 * 1024
    /\ Cardinality({j \in 1..Len(s_tree) :
                      yields_sample(s_repo, s_tree[j])}) > 5


(***************************************************************************)
(* Claims about _parse_response (specification SpecParse).                 *)
(***************************************************************************)

\* v is a mapping that has the key k
HasKey(v, k) == v.t = "dict" /\ k \in DOMAIN v.m

\* the payload v lacks a top-level key, or its skill_md lacks frontmatter or
\* content, or its frontmatter lacks name or description, or its references or
\* templates value is no list
LacksRequiredPart(v) ==
    \/ \E k \in {K_skill_md, K_references, K_templates} : ~HasKey(v, k)
    \/ ~HasKey(v.m[K_skill_md], K_frontmatter)
    \/ ~HasKey(v.m[K_skill_md], K_content)
    \/ ~HasKey(v.m[K_skill_md].m[K_frontmatter], K_name)
    \/ ~HasKey(v.m[K_skill_md].m[K_frontmatter], K_description)
    \/ v.m[K_references].t # "list"
    \/ v.m[K_templates].t # "list"

\* C8: for every syntactically valid JSON payload that lacks one of the
\* top-level keys skill_md, references, templates, or whose skill_md lacks
\* frontmatter or content, or whose frontmatter lacks name or description, or
\* whose references or templates value is not a list, _parse_response returns
\* None.
C8_IncompletePayloadGivesNone ==
    (p_pc = "ret" /\ p_loaded.ok /\ LacksRequiredPart(p_loaded.val))
        => p_ret.kind = "None"

\* every element of the list value v is a mapping with filename and content
EntriesWellFormed(v) ==
    /\ v.t = "list"
    /\ \A i \in 1..Len(v.items) :
          HasKey(v.items[i], K_filename) /\ HasKey(v.items[i], K_content)

\* the SkillDocument invariant
IsSkillDocument(v) ==
    /\ HasKey(v, K_skill_md) /\ HasKey(v, K_references) /\ HasKey(v, K_templates)
    /\ HasKey(v.m[K_skill_md], K_frontmatter)
    /\ HasKey(v.m[K_skill_md], K_content)
    /\ HasKey(v.m[K_skill_md].m[K_frontmatter], K_name)
    /\ HasKey(v.m[K_skill_md].m[K_frontmatter], K_description)
    /\ v.m[K_skill_md].m[K_frontmatter].m[K_name].t = "str"
    /\ v.m[K_skill_md].m[K_frontmatter].m[K_description].t = "str"
    /\ EntriesWellFormed(v.m[K_references])
    /\ EntriesWellFormed(v.m[K_templates])

\* C9: every document _parse_response returns satisfies the whole SkillDocument
\* invariant: skill_md is a mapping with frontmatter and content, frontmatter is
\* a mapping whose name and description are strings, and references and
\* templates are lists whose every element is a mapping with filename and
\* content.
C9_ReturnedDocumentWellFormed ==
    (p_pc = "ret" /\ p_ret.kind = "doc") => IsSkillDocument(p_ret.doc)

\* the 1-based positions at which the word p begins in the text s
Occurrences(s, p) ==
    {i \in 1..Len(s) :
        /\ i + Len(p) - 1 <= Len(s)
        /\ \A k \in 1..Len(p) : s[i + k - 1] = p[k]}

Least(S) == CHOOSE i \in S : \A j \in S : i <= j
Greatest(S) == CHOOSE i \in S : \A j \in S : i >= j

\* the characters of s at the positions from..to (none when to < from)
Between(s, from, to) == [i \in 1..(IF to < from THEN 0 ELSE to - from + 1) |-> s[from + i - 1]]

\* t is s without its leading and trailing whitespace
IsTrimOf(t, s) ==
    /\ t = <<>> \/ (t[1] \notin PyWhitespace /\ t[Len(t)] \notin PyWhitespace)
    /\ \E a \in 0..Len(s) :
          /\ a + Len(t) <= Len(s)
          /\ \A i \in 1..Len(s) :
                IF i > a /\ i <= a + Len(t) THEN s[i] = t[i - a]
                ELSE s[i] \in PyWhitespace

\* C10: the candidate text handed to the JSON parser is chosen by the first
\* matching rule: (1) the text holds a json-tagged fence opener: the trimmed
\* substring from just after the first such opener to the last fence marker;
\* (2) the text holds a fence marker: the trimmed substring from just after the
\* first fence marker to the last one; (3) the whole trimmed text.
C10_CandidateByFirstRule ==
    p_pc = "ret" =>
        IF Occurrences(p_text, JsonFence) # {}
        THEN IsTrimOf(p_candidate,
                      Between(p_text, Least(Occurrences(p_text, JsonFence)) + 7,
                              Greatest(Occurrences(p_text, Fence)) - 1))
        ELSE IF Occurrences(p_text, Fence) # {}
        THEN IsTrimOf(p_candidate,
                      Between(p_text, Least(Occurrences(p_text, Fence)) + 3,
                              Greatest(Occurrences(p_text, Fence)) - 1))
        ELSE IsTrimOf(p_candidate, p_text)

\* C10 witness: a response with prose around a json-tagged block whose payload
\* holds fence markers of its own was cut at the last marker and parsed into a
\* document.
C10_Witness ==
    /\ p_pc = "ret"
    /\ Occurrences(p_text, JsonFence) # {}
    /\ Least(Occurrences(p_text, JsonFence)) > 1
    /\ Cardinality(Occurrences(p_text, Fence)) > 2
    /\ Greatest(Occurrences(p_text, Fence)) + 2 < Len(p_text)
    /\ p_candidate # <<>>
    /\ p_ret.kind = "doc"


\* the text is one json-tagged fenced block: the opener, a line break, a
\* payload, a line break, the closing fence marker
IsJsonBlock(text) ==
    /\ Len(text) >= Len(JsonFence) + Len(Fence) + 2
    /\ SubSeq(text, 1, Len(JsonFence) + 1) = JsonFence \o <<"\n">>
    /\ SubSeq(text, Len(text) - Len(Fence), Len(text)) = <<"\n">> \o Fence

\* the payload of such a block
BlockPayload(text) == SubSeq(text, Len(JsonFence) + 2, Len(text) - Len(Fence) - 1)

\* the text P is a valid SkillDocument payload
IsValidPayload(P) == json_loads(P).ok /\ IsSkillDocument(json_loads(P).val)

\* C11: for every valid SkillDocument payload P, _parse_response of the single
\* json-tagged fenced block around P returns the document that parsing P
\* directly gives, and _parse_response of a text without fence markers that is
\* exactly P returns that same document.
C11_FencedAndBareParseAlike ==
    p_pc = "ret" =>
        /\ (IsJsonBlock(p_text) /\ IsValidPayload(BlockPayload(p_text)))
              => p_ret = Returned(json_loads(BlockPayload(p_text)).val)
        /\ (Occurrences(p_text, Fence) = {} /\ IsValidPayload(p_text))
              => p_ret = Returned(json_loads(p_text).val)

\* the document with name x, description d, content c and no references or
\* templates
ExampleDocument ==
    JDict((K_skill_md :> JDict((K_frontmatter :> JDict((K_name :> JStr(<<"x">>))
                                                   @@ (K_description :> JStr(<<"d">>))))
                               @@ (K_content :> JStr(<<"c">>))))
          @@ (K_references :> JList(<<>>)) @@ (K_templates :> JList(<<>>)))

\* C11 witness: the fenced form of the example payload was parsed into the
\* example document
C11_Witness ==
    /\ p_pc = "ret"
    /\ IsJsonBlock(p_text)
    /\ IsValidPayload(BlockPayload(p_text))
    /\ p_ret = Returned(ExampleDocument)

\* the bare form of the example payload was parsed into the example document
C11_BareReached ==
    /\ p_pc = "ret"
    /\ Occurrences(p_text, Fence) = {}
    /\ p_text # <<>>
    /\ p_text[1] = "{"
    /\ p_ret = Returned(ExampleDocument)

\* a valid payload holding fence markers inside a string was parsed from its
\* fenced form
C11_InnerFencesReached ==
    /\ p_pc = "ret"
    /\ IsJsonBlock(p_text)
    /\ Occurrences(BlockPayload(p_text), Fence) # {}
    /\ IsValidPayload(BlockPayload(p_text))
    /\ p_ret.kind = "doc"


\* C12: _parse_response is total: for every raw text it returns a validated
\* document or None and never raises, whether the candidate is no valid JSON
\* or valid JSON of an unexpected shape (a top-level list, number, string or
\* null, a frontmatter that is no mapping).
C12_ParseResponseTotal ==
    p_pc = "ret" =>
        /\ p_ret.kind \in {"doc", "None"}
        /\ p_ret.kind = "doc" => validate_skill_data(p_ret.doc) = "True"


(***************************************************************************)
(* Claims about generate_skill and the backends (specification             *)
(* SpecGenerate).                                                          *)
(***************************************************************************)

\* C13: one call of generate_skill builds the prompt, then invokes
\* _call_ai_api at most once, then invokes _parse_response at most once and
\* only when the backend returned a non-empty text; when the backend returns
\* None or an empty string generate_skill returns None without parsing; no
\* step is retried.
C13_OneCallOneParse ==
    \A r \in Sinks :
        /\ g_calls[r].prompt <= 1 /\ g_calls[r].api <= 1 /\ g_calls[r].parse <= 1
        /\ g_calls[r].api = 1 => g_calls[r].prompt = 1
        /\ g_calls[r].parse = 1 =>
              (g_calls[r].api = 1 /\ g_resp[r].kind = "text" /\ g_resp[r].text # <<>>)
        /\ (g_calls[r].api = 1 /\ (g_resp[r].kind = "None" \/ g_resp[r].text = <<>>)) =>
              (g_pc[r] = "ret" /\ g_ret[r] = ReturnedNone /\ g_calls[r].parse = 0)

\* C13 witness: Google AI Studio was called once and gave an empty string, and
\* generate_skill returned None without parsing.
C13_Witness ==
    /\ g_backend = "Google AI Studio"
    /\ g_pc["none"] = "ret"
    /\ g_calls["none"] = [prompt |-> 1, api |-> 1, parse |-> 0]
    /\ g_resp["none"] = SomeText(<<>>)
    /\ g_ret["none"] = ReturnedNone

\* a text was parsed once into a document
C13_ParsedOnceReached ==
    /\ g_pc["ok"] = "ret"
    /\ g_calls["ok"] = [prompt |-> 1, api |-> 1, parse |-> 1]
    /\ g_ret["ok"].kind = "doc"


\* C14: on each backend (Anthropic API, Vertex AI with a Claude or a Gemini
\* model, Google AI Studio, OpenAI API) an error of the provider during the
\* call makes _call_ai_api return None and generate_skill return None; the
\* error does not propagate out of either.
C14_ProviderErrorGivesNone ==
    \A r \in Sinks :
        (g_provider.fails /\ g_calls[r].api = 1) =>
            /\ g_resp[r] = NoText
            /\ g_pc[r] = "ret"
            /\ g_ret[r] = ReturnedNone
            /\ g_calls[r].parse = 0

\* C14 witness: the provider failed during the one call made on the Vertex AI
\* backend with a Gemini model, and generate_skill returned None.
C14_Witness ==
    /\ g_backend = "Vertex AI Gemini"
    /\ g_provider.fails
    /\ g_calls["ok"].api = 1
    /\ g_resp["ok"] = NoText
    /\ g_pc["ok"] = "ret"
    /\ g_ret["ok"] = ReturnedNone


\* the selected backend's minimum credential is absent: the API key is missing
\* or empty for the three API-key backends; the project or the location is
\* missing or empty for Vertex AI
credential_absent(auth_method, kwargs) ==
    IF auth_method = "Vertex AI"
      THEN \/ py_not(kwargs_get(kwargs, "project_id", JNull))
           \/ py_not(kwargs_get(kwargs, "location", JNull))
      ELSE py_not(kwargs_get(kwargs, "api_key", JNull))

KnownAuthMethods == {"Vertex AI", "Google AI Studio", "Anthropic API", "OpenAI API"}

\* C15: create_generator raises a ValueError with a message, before it enters
\* any constructor, whenever the selected backend's minimum credential is
\* absent (API key for Google AI Studio, Anthropic API, OpenAI API; project or
\* location for Vertex AI), and also for an unknown authentication method.
C15_FailsFastWithoutCredential ==
    (c_pc \in {"construct", "ret"}
       /\ (c_auth_method \notin KnownAuthMethods \/ credential_absent(c_auth_method, c_kwargs)))
      => /\ c_pc = "ret"
         /\ c_ret.kind = "raise" /\ c_ret.error = "ValueError" /\ c_ret.message # <<>>
         /\ c_built = <<>>

\* C15, the part the code keeps: a missing or empty API key, a missing or empty
\* project, and an unknown method give a ValueError before any constructor
C15_KeyOrProjectAbsentFailsFast ==
    (c_pc \in {"construct", "ret"}
       /\ \/ c_auth_method \notin KnownAuthMethods
          \/ c_auth_method = "Vertex AI" /\ py_not(kwargs_get(c_kwargs, "project_id", JNull))
          \/ c_auth_method \in KnownAuthMethods \ {"Vertex AI"}
               /\ py_not(kwargs_get(c_kwargs, "api_key", JNull)))
      => /\ c_pc = "ret"
         /\ c_ret.kind = "raise" /\ c_ret.error = "ValueError" /\ c_ret.message # <<>>
         /\ c_built = <<>>

\* Vertex AI was asked for with a project and an empty location, and a
\* generator was constructed and returned
C15_EmptyLocationConstructs ==
    /\ c_auth_method = "Vertex AI"
    /\ "location" \in DOMAIN c_kwargs /\ c_kwargs["location"] = JStr(<<>>)
    /\ c_pc = "ret"
    /\ c_ret.kind = "generator"
    /\ Len(c_built) = 1


\* C16: for every document _parse_response returns, build_skill (called with
\* no callback) either returns the skill directory or raises a filesystem
\* fault (OSError); it never raises because of the document's shape (KeyError
\* for a missing filename or content, TypeError for a name, a file name or an
\* element of the wrong type).
C16_BuildFailsOnlyOnFilesystem ==
    b_pc = "ret" =>
        \/ b_ret["none"].kind = "path"
        \/ b_ret["none"].kind = "raise" /\ b_ret["none"].error = "OSError"

\* a returned document whose references hold an element without filename was
\* built with no filesystem fault, and build_skill raised KeyError
C16_MissingFilenameRaises ==
    /\ b_pc = "ret" /\ b_fs_fault = 0
    /\ p_ret.kind = "doc"
    /\ Len(p_ret.doc.m[K_references].items) = 1
    /\ p_ret.doc.m[K_references].items[1].t = "dict"
    /\ K_filename \notin DOMAIN p_ret.doc.m[K_references].items[1].m
    /\ b_ret["none"] = BuildRaised("KeyError")

\* a returned document whose elements all hold a string filename and a string
\* content, under a string name, was built
C16_WellFormedBuilt ==
    /\ b_pc = "ret" /\ b_fs_fault = 0
    /\ Len(p_ret.doc.m[K_references].items) = 2
    /\ Len(p_ret.doc.m[K_templates].items) = 2
    /\ b_ret["none"] = BuildReturned


\* validate_skill returned a failing result (the script's exit code, a
\* timeout, an error starting it, or the findings of the fallback)
FailingValidation == validation.kind = "ret" /\ ~validation.is_valid

\* the run added its row to the history and stored its result
RunRecorded ==
    /\ history # <<>>
    /\ history[Len(history)] = HistoryRow(repo_url, "success", "none")
    /\ stored = StoredResult(repo_url)

RunRows == SelectSeq(history, LAMBDA row : row.repo_url = repo_url)

\* C19: every run of generate_skill_workflow that has ended, in success or in
\* failure (invalid URL, no metadata, clone failure, generation failure,
\* packaging failure, exception), has added exactly one row to the history,
\* holding "success" and no error, or a failure status and its error.
C19_OneHistoryRowPerAttempt ==
    (mode = "workflow" /\ outcome # "running") =>
        /\ Len(RunRows) = 1
        /\ outcome = "success" <=> RunRows[1].status = "success"
        /\ outcome # "success" => RunRows[1].error # "none"

\* a run ended on an invalid locator and the history is as it was
C19_FailureLeavesNoRow ==
    /\ mode = "workflow"
    /\ outcome = "invalid_url"
    /\ RunRows = <<>>

\* a run ended in success and added its one row
C19_SuccessAddsOneRow ==
    /\ mode = "workflow"
    /\ outcome = "success"
    /\ Len(RunRows) = 1
    /\ RunRows[1] = HistoryRow(repo_url, "success", "none")

\* what the code keeps of C19: a successful run adds exactly one row, with
\* status "success"; every other run adds none
C19_RowOnlyOnSuccess ==
    (mode = "workflow" /\ outcome # "running") =>
        IF outcome = "success" THEN RunRows = <<HistoryRow(repo_url, "success", "none")>>
        ELSE RunRows = <<>>


\* the locators of the runs made so far, in their order
RunUrls == [i \in 1..Len(t_runs) |-> t_runs[i].repo_url]

\* the batch is over: the loop ran out or the script run was ended
BatchOver == t_pc \in {"done", "halted"}

\* C18: batch_generate_workflow called with n URLs (at most MAX_BATCH_SIZE,
\* the first ones entered) runs generate_skill_workflow for every one of them,
\* in list order, one after the other, whatever the outcome of the earlier
\* runs.
C18_EveryUrlRunInOrder ==
    /\ Len(t_urls) <= MAX_BATCH_SIZE
    /\ RunUrls = Take(t_urls, Len(t_runs))
    /\ (BatchOver /\ t_credential) => RunUrls = t_urls

\* what the code keeps of C18: the runs are made in list order, over at most
\* the first MAX_BATCH_SIZE locators entered; after a failed run the next
\* locator is run; the first successful run ends the batch
C18_RunsInOrderUntilSuccess ==
    /\ Len(t_urls) <= MAX_BATCH_SIZE
    /\ RunUrls = Take(t_urls, Len(t_runs))
    /\ \A i \in 1..(Len(t_runs) - 1) : t_runs[i].outcome # "success"
    /\ (BatchOver /\ t_credential) =>
          \/ RunUrls = t_urls
          \/ t_runs # <<>> /\ t_runs[Len(t_runs)].outcome = "success" /\ t_pc = "halted"

\* the first of two locators was generated successfully and the batch is
\* over with the second never run
C18_SuccessEndsBatch ==
    /\ Len(t_urls) = 2
    /\ t_pc = "halted"
    /\ Len(t_runs) = 1
    /\ t_runs[1].outcome = "success"

\* five locators were run one after the other, none with success
C18_AllFiveRun ==
    /\ Len(t_entered) = 6
    /\ t_pc = "done"
    /\ Len(t_runs) = MAX_BATCH_SIZE
    /\ RunUrls = t_urls


\* the run of the batch loop ends as the workflow itself ends: every outcome
\* of generate_skill_workflow is one of RunOutcomes, and st.rerun() is called
\* in the successful run only (checked under Spec)
RunOutcomesAreTheWorkflows ==
    (mode = "workflow" /\ outcome # "running") =>
        /\ outcome \in RunOutcomes(repo_url)
        /\ rerun <=> run_ends_script(outcome)


\* C20: a progress callback that raises never changes the outcome:
\* generate_skill (and likewise clone_repository, build_skill, validate_skill,
\* package_skill) returns the same result with a raising progress_callback as
\* with none.
C20_RaisingSinkChangesNothing ==
    (g_pc["raises"] = "ret" /\ g_pc["none"] = "ret") => g_ret["raises"] = g_ret["none"]

\* the same for build_skill (checked under SpecBuild)
C20_RaisingSinkChangesNoBuild ==
    b_pc = "ret" => b_ret["raises"] = b_ret["none"]

\* generate_skill returned a document with no callback, and with the raising
\* callback the callback's exception left generate_skill
C20_SinkFaultPropagates ==
    /\ g_pc["raises"] = "ret" /\ g_pc["none"] = "ret"
    /\ g_ret["none"].kind = "doc"
    /\ g_ret["raises"] = Raised("CallbackError")

\* what the code keeps of C20: a callback that returns changes nothing
C20_WorkingSinkChangesNothing ==
    (g_pc["ok"] = "ret" /\ g_pc["none"] = "ret") => g_ret["ok"] = g_ret["none"]


(***************************************************************************)
(* Claims about analyze_repository and _prepare_prompt (checked under      *)
(* SpecAnalysis)                                                           *)
(***************************************************************************)

\* the prompt was made, with the loaded template, of the evidence that
\* analyze_repository produced for a clone holding nothing, and of metadata
\* whose description is null
EmptyRepoPrompted ==
    /\ a_pc = "ret"
    /\ a_analysis.kind = "analysis"
    /\ a_repo.path # <<>>
    /\ a_repo.tree = <<>>
    /\ a_fault = "none"
    /\ a_template # ""
    /\ a_metadata = [description |-> PyNone]

\* C21: for the evidence of a repository with no README, no code, no visible
\* entries, no detected language and a null description, _prepare_prompt
\* returns and the README slot holds "README not found", the file-structure
\* slot "File structure not available", the code-samples slot "No code samples
\* available", the languages slot "Unknown" and the description slot
\* "No description available".
C21_AbsentEvidenceGivesPlaceholders ==
    EmptyRepoPrompted =>
        /\ a_prompt.kind = "prompt"
        /\ a_prompt.slots.readme_content = Placeholder("README not found")
        /\ a_prompt.slots.file_structure = Placeholder("File structure not available")
        /\ a_prompt.slots.code_samples = Placeholder("No code samples available")
        /\ a_prompt.slots.languages = Joined({"Unknown"})
        /\ a_prompt.slots.repo_description = Placeholder("No description available")

\* C21, what the code does: the prompt is made; the two slots built by the
\* loops hold their literals, while the README slot is the empty text, the
\* languages slot the join of no language and the description slot str(None),
\* the three keys being present with empty or null values.
C21_EmptyRepoSlots ==
    EmptyRepoPrompted =>
        /\ a_prompt.kind = "prompt"
        /\ a_prompt.slots.readme_content = PrefixOf("readme_content", 0)
        /\ a_prompt.slots.file_structure = Placeholder("File structure not available")
        /\ a_prompt.slots.code_samples = Placeholder("No code samples available")
        /\ a_prompt.slots.languages = Joined({})
        /\ a_prompt.slots.repo_description = StrOf(PyNone)

\* C21, reached: the literals of the README, languages and description slots
\* are substituted when the keys themselves are missing
C21_MissingKeysGivePlaceholders ==
    /\ a_pc = "ret"
    /\ a_prompt.kind = "prompt"
    /\ a_analysis.analysis = Restrict(FullEvidence, {"repo_type"})
    /\ "description" \notin DOMAIN a_metadata
    /\ a_prompt.slots.readme_content = Placeholder("README not found")
    /\ a_prompt.slots.languages = Joined({"Unknown"})
    /\ a_prompt.slots.repo_description = Placeholder("No description available")

\* the evidence the prompt was made of
Evidence == a_analysis.analysis

\* C28: whatever the evidence holds, the README part of a prompt is the first
\* 8000 characters of readme_content, the file-structure part lists the first
\* 20 entries in their order and no other, and the code-samples part holds the
\* first 3 samples at most.
C28_PromptBounded ==
    (a_pc = "ret" /\ a_prompt.kind = "prompt") =>
        /\ "readme_content" \in DOMAIN Evidence =>
              /\ a_prompt.slots.readme_content.kind = "prefix"
              /\ a_prompt.slots.readme_content.len <= 8000
              /\ a_prompt.slots.readme_content.len =
                    IF Evidence["readme_content"] < 8000 THEN Evidence["readme_content"] ELSE 8000
        /\ a_prompt.slots.file_structure.kind = "lines" =>
              /\ Len(a_prompt.slots.file_structure.items) <= 20
              /\ Len(a_prompt.slots.file_structure.items) =
                    IF Len(Evidence["file_structure"]) < 20
                      THEN Len(Evidence["file_structure"]) ELSE 20
              /\ \A i \in 1..Len(a_prompt.slots.file_structure.items) :
                    a_prompt.slots.file_structure.items[i] = Evidence["file_structure"][i]
        /\ a_prompt.slots.code_samples.kind = "lines" =>
              /\ Len(a_prompt.slots.code_samples.items) <= 3
              /\ \A i \in 1..Len(a_prompt.slots.code_samples.items) :
                    /\ a_prompt.slots.code_samples.items[i].index = i
                    /\ a_prompt.slots.code_samples.items[i].sample = Evidence["code_samples"][i]

\* C28, reached: a prompt made of the evidence of a clone with a README over
\* 8000 characters, more than 20 visible entries and more than 3 samples
C28_Witness ==
    /\ a_pc = "ret"
    /\ a_prompt.kind = "prompt"
    /\ a_repo.path # <<>>
    /\ Evidence["readme_content"] > 8000
    /\ Len(Evidence["file_structure"]) > 20
    /\ Len(Evidence["code_samples"]) > 3
    /\ a_prompt.slots.readme_content.len = 8000
    /\ Len(a_prompt.slots.file_structure.items) = 20
    /\ Len(a_prompt.slots.code_samples.items) = 3


\* the field of the evidence that a step of the analysis computes
FieldOfFault ==
    [none |-> "none", readme_exists |-> "readme_content", readme_stat |-> "readme_content",
     structure |-> "file_structure", samples |-> "code_samples", repo_type |-> "repo_type",
     languages |-> "languages", documentation |-> "has_documentation", count |-> "total_files"]

\* the step named by a fault, as a field name of FieldOfFault
FaultKey(fault) ==
    IF fault = "readme exists" THEN "readme_exists"
    ELSE IF fault = "readme stat" THEN "readme_stat"
    ELSE fault

\* every field of the evidence but the one of the faulty step is what
\* analyze_repository gives it for the same clone when no fault occurs
OtherFieldsKept ==
    LET faultless == analyze_repository(a_repo.path, a_repo.tree, "none").analysis
    IN  \A field \in DOMAIN faultless :
            field # FieldOfFault[FaultKey(a_fault)] => a_analysis.analysis[field] = faultless[field]

\* analyze_repository has just been called on a clone
AnalyzeCalled == a_pc # "analyze" /\ a_repo.path # <<>> /\ a_prompt = NoPrompt

\* C29: analyze_repository never raises; a read or stat error in any one step
\* (README, file structure, code samples, repo type, languages, documentation
\* flag, file count) leaves every other field as computed without the error.
C29_FaultsNeverRaise ==
    AnalyzeCalled =>
        /\ a_analysis.kind = "analysis"
        /\ OtherFieldsKept

\* C29, what the code does: an error in the file structure, the code samples,
\* the languages, the file count, or in the stat or read of a README is
\* caught, and every other field is as without the error.
C29_CaughtFaultsKeepOtherFields ==
    (AnalyzeCalled /\ a_fault \notin {"readme exists", "repo_type", "documentation"}) =>
        /\ a_analysis.kind = "analysis"
        /\ OtherFieldsKept

\* C29, reached: an error in the repo type test, the documentation test or in
\* exists() of a README leaves analyze_repository as an exception
C29_UncaughtFaultRaises ==
    /\ AnalyzeCalled
    /\ a_fault \in {"readme exists", "repo_type", "documentation"}
    /\ a_analysis.kind = "raise"

\* C29: the three uncaught faults always end analyze_repository with an exception
C29_UncaughtFaultsAlwaysRaise ==
    (AnalyzeCalled /\ a_fault \in {"readme exists", "repo_type", "documentation"}) =>
        a_analysis.kind = "raise"


(***************************************************************************)
(* Claims about the repository name (checked under SpecUrl)                *)
(***************************************************************************)

\* the second path segment of the locator validated
SecondSegment == path_parts(urlparse(u_url).path)[2]

\* a segment with only a trailing ".git" removed
TrailingGitRemoved(segment) ==
    IF EndsWith(segment, DotGit) THEN Slice(segment, 0, Len(segment) - Len(DotGit))
    ELSE segment

\* the locator was accepted
Accepted == u_pc = "ret" /\ u_ret.ok

\* C24: for every accepted locator, the repository name used for the metadata
\* request and for the scratch directory name is the second path segment with
\* only a trailing ".git" removed; ".git" elsewhere in the name is kept.
C24_OnlyTrailingGitRemoved ==
    Accepted =>
        /\ extract_repo_info(u_url).repo = TrailingGitRemoved(SecondSegment)
        /\ safe_name(u_url) =
              ReSubOutside(path_parts(urlparse(u_url).path)[1] \o <<"/">>
                               \o TrailingGitRemoved(SecondSegment), OwnerClass, "_")

\* C24, what the code does: the name is as the claim says whenever the
\* segment, its trailing ".git" apart, holds no ".git"
C24_TrailingGitRemovedWhenNoOther ==
    (Accepted /\ ~Contains(TrailingGitRemoved(SecondSegment), DotGit)) =>
        extract_repo_info(u_url).repo = TrailingGitRemoved(SecondSegment)

\* C24, reached: an accepted locator whose name holds ".git" before its end
\* is given a name without it
C24_InnerGitRemoved ==
    /\ Accepted
    /\ SecondSegment = <<"a",".","g","i","t","b">>
    /\ extract_repo_info(u_url).repo = <<"a","b">>
    /\ safe_name(u_url) = <<"o","_","a","b">>


(***************************************************************************)
(* Claims about runs at the same time (checked under SpecRuns)             *)
(***************************************************************************)

\* the run is between a successful clone_repository and its cleanup
HoldsClone(i) == r_pc[i] = "cloned"

\* the clone of the run lies where clone_repository put it
CloneIntact(i) == r_disk[r_path[i]] = i

\* C22: while one run is between a successful clone_repository and its
\* cleanup, no other run, of the same repository or of another one with the
\* same sanitized name, deletes or rewrites that run's clone directory.
C22_RunsNeverInterfere == \A i \in Runs : HoldsClone(i) => CloneIntact(i)

\* C22, what the code does: the clone of a run is left alone by every run
\* whose locator is rejected or sanitized to another name
C22_OtherNamesNeverInterfere ==
    \A i \in Runs :
        (HoldsClone(i) /\ \A j \in Runs \ {i} :
                              \/ ~validate_github_url(r_url[j]).ok
                              \/ safe_name(r_url[j]) # r_path[i])
            => CloneIntact(i)

\* C22, reached: a run holds a clone that a run of the same repository has removed
C22_SameRepoRemovesClone ==
    \E i \in Runs : \E j \in Runs \ {i} :
        /\ HoldsClone(i)
        /\ r_url[j] = r_url[i]
        /\ r_pc[j] # "start"
        /\ ~CloneIntact(i)

\* C22, reached: a run holds a clone that a run of another repository with
\* the same sanitized name has removed
C22_OtherRepoRemovesClone ==
    \E i \in Runs : \E j \in Runs \ {i} :
        /\ HoldsClone(i)
        /\ extract_repo_info(r_url[j]).full_name # extract_repo_info(r_url[i]).full_name
        /\ r_pc[j] # "start"
        /\ ~CloneIntact(i)

\* the owner and repository name of the locator of a run
PairOf(i) == <<extract_repo_info(r_url[i]).owner, extract_repo_info(r_url[i]).repo>>

\* C30: two different accepted owner/repo pairs are always given two
\* different scratch directories by clone_repository.
C30_DifferentPairsDifferentDirs ==
    \A i \in Runs : \A j \in Runs :
        (r_path[i] # NoPath /\ r_path[j] # NoPath /\ PairOf(i) # PairOf(j))
            => r_path[i] # r_path[j]

\* C30, what the code does: two accepted pairs that differ are given
\* different directories whenever no name holds a character the sanitizer
\* replaces (a dot) or its replacement (an underscore)
PlainPair(i) ==
    \A k \in 1..2 : ~Contains(PairOf(i)[k], <<".">>) /\ ~Contains(PairOf(i)[k], <<"_">>)

C30_PlainPairsDifferentDirs ==
    \A i \in Runs : \A j \in Runs :
        (r_path[i] # NoPath /\ r_path[j] # NoPath /\ PairOf(i) # PairOf(j)
            /\ PlainPair(i) /\ PlainPair(j))
            => r_path[i] # r_path[j]

\* C30, reached: o/r.x and o/r_x, both accepted, are given the directory o_r_x
C30_SameDirForTwoPairs ==
    \E i \in Runs : \E j \in Runs :
        /\ PairOf(i) = <<<<"o">>, <<"r",".","x">>>>
        /\ PairOf(j) = <<<<"o">>, <<"r","_","x">>>>
        /\ r_path[i] = <<"o","_","r","_","x">>
        /\ r_path[j] = <<"o","_","r","_","x">>


(***************************************************************************)
(* Claims about the effects of a run (checked under SpecEffects)           *)
(***************************************************************************)

\* the effects of the run before the validation result was reported
BeforeReport == SubSeq(e_log, 1, Len(e_log) - 1)

\* the run ended with the report of a rejected locator
RejectedReported ==
    /\ e_outcome = "invalid_url"
    /\ e_log # <<>>
    /\ e_log[Len(e_log)] = "validation reported"

\* C23: a malformed or unsafe locator is rejected before any I/O: no file
\* read, no database access, no provider client construction, no metadata
\* request and no clone occurs before the validation result is reported.
C23_RejectedBeforeAnyIO ==
    e_outcome = "invalid_url" => e_log = <<"validation reported">>

\* C23, what the code does: neither the metadata request nor the clone nor a
\* provider call occurs before the report
C23_RejectedBeforeNetwork ==
    e_outcome = "invalid_url" =>
        /\ RejectedReported
        /\ \A k \in 1..Len(BeforeReport) :
              BeforeReport[k] \notin {"metadata request", "clone", "provider call"}

\* C23, reached: the template was read, the provider client built and the
\* database opened before the locator was rejected
C23_ComponentsBeforeReport ==
    /\ RejectedReported
    /\ BeforeReport = <<"template read", "provider client", "database open">>

\* the metadata request has been made
Requested == e_requests # <<>>

\* the one response met
Response == e_requests[1]

\* the request failed: a status outside 200-299, a timeout, a transport error
RequestFailed ==
    \/ Response.kind # "status"
    \/ Response.status < 200
    \/ Response.status > 299

\* the request failed with a status of 400 to 599, a timeout or a transport error
RequestFailedWithError ==
    \/ Response.kind # "status"
    \/ Response.status >= 400 /\ Response.status <= 599

\* after a single request fetch_repo_metadata returned None and the run ended
\* with no clone, no provider call and no scratch directory
EndedAfterOneRequest ==
    /\ Len(e_requests) = 1
    /\ e_meta = FetchReturned("None")
    /\ e_outcome = "no_metadata"
    /\ \A k \in 1..Len(e_log) : e_log[k] \notin {"clone", "provider call"}

\* C25: when the metadata request fails (non-2xx status, timeout, any
\* transport error), fetch_repo_metadata returns None after a single request,
\* and the run ends without cloning, without calling the provider and without
\* a scratch directory.
C25_FailedRequestEndsRun == (Requested /\ RequestFailed) => EndedAfterOneRequest

\* C25, what the code does: so it is for the statuses 400 to 599, for
\* timeouts and for transport errors
C25_ErrorStatusEndsRun == (Requested /\ RequestFailedWithError) => EndedAfterOneRequest

\* C25, reached: a 404 answer ended the run after one request
C25_NotFoundEndsRun ==
    /\ Requested
    /\ Response.kind = "status"
    /\ Response.status = 404
    /\ EndedAfterOneRequest

\* C25, reached: a final answer with status 300 and a JSON object as its body
\* was taken for the metadata, and the repository was cloned
C25_UnfollowedRedirectCloned ==
    /\ Requested
    /\ Response.kind = "status"
    /\ Response.status = 300
    /\ e_meta = FetchReturned("object")
    /\ \E k \in 1..Len(e_log) : e_log[k] = "clone"

\* C25: no run makes more than one metadata request
C25_SingleRequest == Len(e_requests) <= 1


(***************************************************************************)
(* Claims about installation (checked under SpecInstall)                   *)
(***************************************************************************)

\* the k-th call back from the last was a successful install_skill
InstalledAt(k) ==
    /\ Len(i_calls) > k
    /\ i_calls[Len(i_calls) - k].call = "install"
    /\ i_calls[Len(i_calls) - k].ok

\* the last call was uninstall_skill of a name under which nothing lay
UninstalledAbsent ==
    /\ i_ret.call = "uninstall"
    /\ ~entry_exists(i_before[i_ret.name])

C26_EarlierFileRemoved ==
    /\ InstalledAt(0)
    /\ i_before[i_skill.name].kind = "dir"
    /\ "old.md" \in i_before[i_skill.name].files
    /\ i_root[i_skill.name] = Dir(i_skill.files)

\* C26, reached: uninstall_skill of a name under which nothing lies
C26_UninstallAbsentRefused ==
    /\ UninstalledAbsent
    /\ ~i_ret.ok
    /\ i_root = i_before

\* C26, reached: a directory without SKILL.md, which is_skill_installed does
\* not count as installed, is removed by uninstall_skill
C26_UninstallRemovesUnfinished ==
    /\ i_ret.call = "uninstall"
    /\ i_ret.ok
    /\ ~is_skill_installed(i_before, i_ret.name)
    /\ i_root[i_ret.name] = Nothing


(***************************************************************************)
(* Claims about prose around the fenced payload (checked under SpecParse)  *)
(***************************************************************************)

\* the response text is the payload in one json-tagged fence between the prose
IsProseWrapped(before, payload, after) == p_text = ProseWrapped(before, payload, after)

\* the call returned the document that the payload is
ReturnedPayload(payload) ==
    /\ IsValidPayload(payload)
    /\ p_ret = Returned(json_loads(payload).val)

\* C27: for every valid payload in one json-tagged fence, with prose before
\* and after the fence that holds no fence marker, _parse_response returns
\* the payload, also when strings of the payload hold fence markers.
C27_ProseWrappedPayloadReturned ==
    p_pc = "ret" =>
        \A before \in ProseBefore, payload \in ValidPayloads, after \in ProseAfter :
            IsProseWrapped(before, payload, after) => ReturnedPayload(payload)

\* C27, what the code does: the payload is returned whenever the prose after
\* the fence does not begin with a grave accent
C27_PayloadReturnedUnlessAccentFollows ==
    p_pc = "ret" =>
        \A before \in ProseBefore, payload \in ValidPayloads, after \in ProseAfter :
            (IsProseWrapped(before, payload, after) /\ (after = <<>> \/ Head(after) # Tick))
                => ReturnedPayload(payload)

\* C27, reached: a payload whose content holds a fenced example, between
\* prose on both sides, is returned
C27_Witness ==
    /\ p_pc = "ret"
    /\ \E before \in ProseBefore \ {<<>>}, payload \in ValidPayloads, after \in ProseAfter \ {<<>>} :
          /\ IsProseWrapped(before, payload, after)
          /\ Contains(payload, JsonFence)
          /\ ReturnedPayload(payload)

\* C27, reached: prose that begins with a grave accent right after the fence
\* moves the last fence marker by one character, and None is returned
C27_AccentAfterFenceGivesNone ==
    /\ p_pc = "ret"
    /\ \E before \in ProseBefore, payload \in ValidPayloads, after \in ProseAfter :
          /\ IsProseWrapped(before, payload, after)
          /\ after # <<>>
          /\ Head(after) = Tick
          /\ p_ret = ReturnedNone

====
